---------------------------- MODULE Spec2Model ----------------------------
(***************************************************************************)
(* Model of post-process-dump.py (MySQL-migration-tools): the streaming    *)
(* removal of versioned compatibility comments  /*!<digits> ... */  from   *)
(* a dump, with the rewrite stages applied by write_out.                   *)
(*                                                                         *)
(* Text is a sequence of one-character strings.  Positions are 0-based and *)
(* slices are half-open, as in the Python source, so that every index      *)
(* expression of the source is carried over unchanged (Slice, At, Find).   *)
(* None is modelled by -1 wherever the source uses None or -1 for "no      *)
(* position", and by the empty text for an absent name.                    *)
(*                                                                         *)
(* Local variables of the source that are used more than once are passed   *)
(* as parameters to an auxiliary operator instead of being bound by LET.   *)
(***************************************************************************)
EXTENDS Integers, Sequences, FiniteSets, TLC

None == -1

NoText == <<>>

Min(a, b) == IF a < b THEN a ELSE b

Max(a, b) == IF a > b THEN a ELSE b

MinOf(S) == CHOOSE i \in S : \A j \in S : i <= j

MaxOf(S) == CHOOSE i \in S : \A j \in S : i >= j

(***************************************************************************)
(* Python str primitives.                                                  *)
(***************************************************************************)
At(s, i) == s[i + 1]

Slice(s, a, b) == SubSeq(s, Min(Max(a, 0), Len(s)) + 1, Min(Max(b, 0), Len(s)))

SliceFrom(s, a) == SubSeq(s, Min(Max(a, 0), Len(s)) + 1, Len(s))

StartsWithAt(s, p, i) ==
    /\ i >= 0
    /\ i + Len(p) <= Len(s)
    /\ \A j \in 1..Len(p) : s[i + j] = p[j]

StartsWith(s, p) == StartsWithAt(s, p, 0)

EndsWith(s, p) == StartsWithAt(s, p, Len(s) - Len(p))

\* The indices >= start where p occurs in s.
Occurrences(s, p, start) == {i \in start..(Len(s) - Len(p)) : StartsWithAt(s, p, i)}

\* str.find(p, start): the lowest index >= start where p occurs, or -1.
Find(s, p, start) ==
    IF Occurrences(s, p, start) = {} THEN None ELSE MinOf(Occurrences(s, p, start))

\* str.rfind(p): the highest index where p occurs, or -1.
Rfind(s, p) ==
    IF Occurrences(s, p, 0) = {} THEN None ELSE MaxOf(Occurrences(s, p, 0))

Digits == {"0", "1", "2", "3", "4", "5", "6", "7", "8", "9"}

IsDigit(c) == c \in Digits

\* Whitespace of str.isspace() and of the regex class \s (ASCII part).
Whitespace == {" ", "\t", "\n", "\r", "\f"}

IsSpace(c) == c \in Whitespace

LowerLetters ==
    {"a", "b", "c", "d", "e", "f", "g", "h", "i", "j", "k", "l", "m",
     "n", "o", "p", "q", "r", "s", "t", "u", "v", "w", "x", "y", "z"}

UpperLetters ==
    {"A", "B", "C", "D", "E", "F", "G", "H", "I", "J", "K", "L", "M",
     "N", "O", "P", "Q", "R", "S", "T", "U", "V", "W", "X", "Y", "Z"}

UpperMap ==
    ("a" :> "A") @@ ("b" :> "B") @@ ("c" :> "C") @@ ("d" :> "D") @@
    ("e" :> "E") @@ ("f" :> "F") @@ ("g" :> "G") @@ ("h" :> "H") @@
    ("i" :> "I") @@ ("j" :> "J") @@ ("k" :> "K") @@ ("l" :> "L") @@
    ("m" :> "M") @@ ("n" :> "N") @@ ("o" :> "O") @@ ("p" :> "P") @@
    ("q" :> "Q") @@ ("r" :> "R") @@ ("s" :> "S") @@ ("t" :> "T") @@
    ("u" :> "U") @@ ("v" :> "V") @@ ("w" :> "W") @@ ("x" :> "X") @@
    ("y" :> "Y") @@ ("z" :> "Z")

Upper(c) == IF c \in LowerLetters THEN UpperMap[c] ELSE c

\* The regex class \w (ASCII part): the characters between which \b is no boundary.
IsWordChar(c) == c \in LowerLetters \/ c \in UpperLetters \/ c \in Digits \/ c = "_"

\* Length of the maximal run of whitespace that ends s.
RECURSIVE TrailingWsLen(_)
TrailingWsLen(s) ==
    IF Len(s) > 0 /\ IsSpace(s[Len(s)])
    THEN 1 + TrailingWsLen(SubSeq(s, 1, Len(s) - 1))
    ELSE 0

\* Length of the maximal run of whitespace that starts at index i of s.
RECURSIVE WsRun(_, _)
WsRun(s, i) == IF i < Len(s) /\ IsSpace(At(s, i)) THEN 1 + WsRun(s, i + 1) ELSE 0

Rstrip(s) == SubSeq(s, 1, Len(s) - TrailingWsLen(s))

Lstrip(s) == SubSeq(s, WsRun(s, 0) + 1, Len(s))

\* Index right after the maximal run of digits that starts at index i of s.
RECURSIVE DigitsEnd(_, _)
DigitsEnd(s, i) == IF i < Len(s) /\ IsDigit(At(s, i)) THEN DigitsEnd(s, i + 1) ELSE i

DigitValue ==
    ("0" :> 0) @@ ("1" :> 1) @@ ("2" :> 2) @@ ("3" :> 3) @@ ("4" :> 4) @@
    ("5" :> 5) @@ ("6" :> 6) @@ ("7" :> 7) @@ ("8" :> 8) @@ ("9" :> 9)

\* int(version_str) for a non-empty run of ASCII digits (Python integers are unbounded).
RECURSIVE ParseInt(_)
ParseInt(ds) ==
    IF Len(ds) = 0 THEN 0
    ELSE 10 * ParseInt(SubSeq(ds, 1, Len(ds) - 1)) + DigitValue[ds[Len(ds)]]

RECURSIVE Join(_)
Join(chunks) == IF Len(chunks) = 0 THEN <<>> ELSE Head(chunks) \o Join(Tail(chunks))

SlashStar == <<"/", "*">>
StarSlash == <<"*", "/">>
Marker == <<"/", "*", "!">>
Semicolon == <<";">>
Equals == <<"=">>
Newline == <<"\n">>

\* The backtick character (a TLA+ string cannot hold it).
Backtick == "[backtick]"

(***************************************************************************)
(* find_conditional_end(comment): the scan for the "*/" that closes a      *)
(* versioned comment, skipping nested "/* ... */".                         *)
(***************************************************************************)
\* The indices k' >= k that the loop "while k < n - 1" can stop at: those where
\* two is "/*" or "*/".
TwoCharIndices(comment, k) ==
    {i \in k..(Len(comment) - 2) :
        Slice(comment, i, i + 2) = SlashStar \/ Slice(comment, i, i + 2) = StarSlash}

\* Where the run of "k += 1" steps that starts at k ends: the next index where
\* two is "/*" or "*/", or None when the loop runs out first.
SkipPlain(comment, k) ==
    IF TwoCharIndices(comment, k) = {} THEN None ELSE MinOf(TwoCharIndices(comment, k))

\* Fault model of the loop: "/*" is not counted, so the first "*/" ends the block.
ScanLoopFlat(comment, k, depth) == Find(comment, StarSlash, k)

\* The loop "while k < n - 1" from index k at nesting depth depth: the value of
\* end_pos.  ScanToken is the iteration at an index k where two is "/*" or "*/".
RECURSIVE ScanLoop(_, _, _), ScanToken(_, _, _)
ScanToken(comment, k, depth) ==
    IF k = None THEN None
    ELSE IF Slice(comment, k, k + 2) = SlashStar THEN ScanLoop(comment, k + 2, depth + 1)
    ELSE IF depth = 0 THEN k
    ELSE ScanLoop(comment, k + 2, depth - 1)

ScanLoop(comment, k, depth) == ScanToken(comment, SkipPlain(comment, k), depth)

\* find_conditional_end once the digits are read: they end at digits_end.
ScanFrom(comment, digits_end) ==
    IF digits_end = 3
    THEN [end_pos |-> None, digits_end |-> None]
    ELSE [end_pos |-> ScanLoop(comment, digits_end, 0), digits_end |-> digits_end]

FindConditionalEnd(comment) == ScanFrom(comment, DigitsEnd(comment, 3))

(***************************************************************************)
(* Regular-expression primitives.  A matcher takes the index where it      *)
(* starts (None: an earlier part already failed) and returns the index     *)
(* right after what it matched, or None.                                   *)
(***************************************************************************)
\* A literal, compared case-insensitively when ci (re.IGNORECASE).
MatchLit(s, i, w, ci) ==
    IF i = None \/ i + Len(w) > Len(s) THEN None
    ELSE IF \A j \in 1..Len(w) :
                IF ci THEN Upper(s[i + j]) = Upper(w[j]) ELSE s[i + j] = w[j]
         THEN i + Len(w)
         ELSE None

\* \s*
Ws0(s, i) == IF i = None THEN None ELSE i + WsRun(s, i)

\* \s+
Ws1(s, i) == IF i = None \/ WsRun(s, i) = 0 THEN None ELSE i + WsRun(s, i)

\* A quoted name opened at i whose next backtick is at j: the index right after it.
QuotedClose(i, j) == IF j = None \/ j = i + 1 THEN None ELSE j + 1

\* The quoted name, a backtick, [^backtick]+ and a backtick: the index right after it.
QuotedEnd(s, i) ==
    IF i = None \/ MatchLit(s, i, <<Backtick>>, FALSE) = None THEN None
    ELSE QuotedClose(i, Find(s, <<Backtick>>, i + 1))

\* group(1) of a quoted name that starts at i and ends at e.
QuotedName(s, i, e) == Slice(s, i + 1, e - 1)

IsWordAt(s, i) == i >= 0 /\ i < Len(s) /\ IsWordChar(At(s, i))

\* \b at index i.
MatchBoundary(s, i) ==
    IF i = None THEN None
    ELSE IF IsWordAt(s, i - 1) # IsWordAt(s, i) THEN i ELSE None

\* ^ under re.MULTILINE.
IsLineStart(s, p) == p = 0 \/ At(s, p - 1) = "\n"

\* The end of the line that holds index i: what .*$ reaches under re.MULTILINE.
LineEnd(s, i) == IF Find(s, Newline, i) = None THEN Len(s) ELSE Find(s, Newline, i)

LineBreaks == {"\n", "\r", "\f"}

LineBreakIndices(s) == {i \in 0..(Len(s) - 1) : At(s, i) \in LineBreaks}

\* The index right after the line break at index i.
BreakEnd(s, i) == IF StartsWithAt(s, <<"\r", "\n">>, i) THEN i + 2 ELSE i + 1

\* str.splitlines(keepends=True)
RECURSIVE SplitLines(_), SplitAt(_, _)
SplitAt(s, e) == <<Slice(s, 0, e)>> \o SplitLines(SliceFrom(s, e))

SplitLines(s) ==
    IF Len(s) = 0 THEN <<>>
    ELSE IF LineBreakIndices(s) = {} THEN <<s>>
    ELSE SplitAt(s, BreakEnd(s, MinOf(LineBreakIndices(s))))

KwUse == <<"U","S","E">>
KwCreate == <<"C","R","E","A","T","E">>
KwTable == <<"T","A","B","L","E">>
KwIf == <<"I","F">>
KwNot == <<"N","O","T">>
KwExists == <<"E","X","I","S","T","S">>
KwEngine == <<"E","N","G","I","N","E">>
KwDrop == <<"D","R","O","P">>
KwView == <<"V","I","E","W">>
KwSet == <<"S","E","T">>
KwTimeZone == <<"t","i","m","e","_","z","o","n","e">>
KwUtc == <<"U","T","C">>
KwAutoIncrementEq == <<"A","U","T","O","_","I","N","C","R","E","M","E","N","T","=">>
KwRowFormat == <<"R","O","W","_","F","O","R","M","A","T">>
KwDefault == <<"D","E","F","A","U","L","T">>
KwCharset == <<"C","H","A","R","S","E","T">>
KwCollate == <<"C","O","L","L","A","T","E">>

(***************************************************************************)
(* replace_utc_time_zone                                                   *)
(***************************************************************************)
\* The part of TIME_ZONE_UTC_RE after group 1, which ends at g1: g1, or None.
TimeZoneLiteral(s, g1) ==
    IF g1 = None \/ g1 >= Len(s) THEN None
    ELSE IF At(s, g1) \notin {"'", "\""} THEN None
    ELSE IF MatchLit(s, MatchLit(s, g1 + 1, KwUtc, TRUE), <<At(s, g1)>>, FALSE) = None
         THEN None
         ELSE g1

\* Fault model of the pattern: without (?i), so that only the spelling
\* "SET time_zone" is matched.
TimeZoneGroup1EndCased(s, p) ==
    IF ~IsLineStart(s, p) THEN None
    ELSE TimeZoneLiteral(s, Ws0(s, MatchLit(s, Ws0(s, MatchLit(s, Ws1(s, MatchLit(s,
             Ws0(s, p), KwSet, FALSE)), KwTimeZone, FALSE)), Equals, FALSE)))

\* TIME_ZONE_UTC_RE at index p: the end of group 1, or None.
TimeZoneGroup1End(s, p) ==
    IF ~IsLineStart(s, p) THEN None
    ELSE TimeZoneLiteral(s, Ws0(s, MatchLit(s, Ws0(s, MatchLit(s, Ws1(s, MatchLit(s,
             Ws0(s, p), KwSet, TRUE)), KwTimeZone, TRUE)), Equals, FALSE)))

\* The index right after the line that holds index p: where the next match of
\* a pattern anchored by ^ can start.
NextLineStart(s, p) ==
    IF Find(s, Newline, p) = None THEN Len(s) ELSE Find(s, Newline, p) + 1

\* TIME_ZONE_UTC_RE.sub(r"\1'+00:00'\3", text), scanning from index p.  Where
\* the pattern does not match at p, the text up to the next line start is copied.
RECURSIVE TimeZoneSub(_, _), TimeZoneSubAt(_, _, _)
TimeZoneSubAt(s, p, g1) ==
    IF g1 = None
    THEN Slice(s, p, NextLineStart(s, p)) \o TimeZoneSub(s, NextLineStart(s, p))
    ELSE Slice(s, p, g1) \o <<"'","+","0","0",":","0","0","'">> \o Slice(s, g1 + 5, LineEnd(s, g1 + 5))
             \o TimeZoneSub(s, LineEnd(s, g1 + 5))

TimeZoneSub(s, p) ==
    IF p >= Len(s) THEN <<>> ELSE TimeZoneSubAt(s, p, TimeZoneGroup1End(s, p))

ReplaceUtcTimeZone(text) == TimeZoneSub(text, 0)

(***************************************************************************)
(* sanitize_ddl_for_reproducibility                                        *)
(***************************************************************************)
\* \d+\b at index d
AutoIncrementDigits(s, d) ==
    IF d = None \/ DigitsEnd(s, d) = d THEN None
    ELSE MatchBoundary(s, DigitsEnd(s, d))

\* AUTO_INCREMENT_RE at index p: the end of the match, or None.
AutoIncrementEnd(s, p) ==
    AutoIncrementDigits(s, MatchLit(s, MatchBoundary(s, p), KwAutoIncrementEq, TRUE))

\* The indices >= p where AUTO_INCREMENT_RE matches.
AutoIncrementStarts(s, p) == {i \in p..(Len(s) - 1) : AutoIncrementEnd(s, i) # None}

\* AUTO_INCREMENT_RE.sub("AUTO_INCREMENT=0", text), scanning from index p, where
\* the next match starts at m.
RECURSIVE AutoIncrementSub(_, _), AutoIncrementSubAt(_, _, _)
AutoIncrementSubAt(s, p, m) ==
    Slice(s, p, m) \o <<"A","U","T","O","_","I","N","C","R","E","M","E","N","T","=","0">> \o AutoIncrementSub(s, AutoIncrementEnd(s, m))

AutoIncrementSub(s, p) ==
    IF AutoIncrementStarts(s, p) = {} THEN SliceFrom(s, p)
    ELSE AutoIncrementSubAt(s, p, MinOf(AutoIncrementStarts(s, p)))

\* The part of DUMP_COMPLETED_ON_RE after the last \s+, which ends at w.
DumpCompletedRest(s, w) == IF w = None THEN None ELSE LineEnd(s, w)

\* DUMP_COMPLETED_ON_RE at index p: the end of the match, or None.
DumpCompletedEnd(s, p) ==
    IF ~IsLineStart(s, p) THEN None
    ELSE DumpCompletedRest(s, Ws1(s, MatchLit(s, Ws1(s, MatchLit(s, Ws1(s, MatchLit(s,
             Ws1(s, MatchLit(s, p, <<"-","-">>, FALSE)), <<"D","u","m","p">>, FALSE)),
             <<"c","o","m","p","l","e","t","e","d">>, FALSE)), <<"o","n">>, FALSE)))

\* DUMP_COMPLETED_ON_RE.sub("-- Dump completed.", text), scanning from index p.
RECURSIVE DumpCompletedSub(_, _), DumpCompletedSubAt(_, _, _)
DumpCompletedSubAt(s, p, e) ==
    IF e = None
    THEN Slice(s, p, NextLineStart(s, p)) \o DumpCompletedSub(s, NextLineStart(s, p))
    ELSE <<"-","-"," ","D","u","m","p"," ","c","o","m","p","l","e","t","e","d",".">> \o DumpCompletedSub(s, e)

DumpCompletedSub(s, p) ==
    IF p >= Len(s) THEN <<>> ELSE DumpCompletedSubAt(s, p, DumpCompletedEnd(s, p))

SanitizeDdlForReproducibility(text) ==
    IF Len(text) = 0 THEN text
    ELSE DumpCompletedSub(AutoIncrementSub(text, 0), 0)

(***************************************************************************)
(* The DROP filter of write_out (no_drop).                                 *)
(***************************************************************************)
\* DROP_STMT_RE.match(stripped)
IsDropStmt(stripped) ==
    MatchBoundary(stripped, MatchLit(stripped, Ws0(stripped, 0), KwDrop, TRUE)) # None

\* The part of VERSIONED_DROP_STMT_RE after "/*!", which ends at m.
IsVersionedDropFrom(stripped, m) ==
    /\ m # None
    /\ DigitsEnd(stripped, m) > m
    /\ MatchBoundary(stripped, MatchLit(stripped,
           Ws0(stripped, DigitsEnd(stripped, m)), KwDrop, TRUE)) # None

\* VERSIONED_DROP_STMT_RE.match(stripped)
IsVersionedDropStmt(stripped) ==
    IsVersionedDropFrom(stripped, MatchLit(stripped, Ws0(stripped, 0), Marker, FALSE))

\* Whether the loop over the lines appends a line with this lstrip() to kept_lines.
KeepStripped(stripped) ==
    Len(stripped) = 0 \/ (~IsVersionedDropStmt(stripped) /\ ~IsDropStmt(stripped))

RECURSIVE KeptLines(_)
KeptLines(lines) ==
    IF Len(lines) = 0 THEN <<>>
    ELSE (IF KeepStripped(Lstrip(Head(lines))) THEN Head(lines) ELSE <<>>)
             \o KeptLines(Tail(lines))

StripDropStatements(enhanced) == KeptLines(SplitLines(enhanced))

(***************************************************************************)
(* enhance_create_table.  An absent name (Python None) is the empty text;  *)
(* a name a regex captures is never empty.  table_meta is a function from  *)
(* the keys "schema.table" to records engine, row_format, table_collation, *)
(* where an absent row_format is the empty text.                           *)
(***************************************************************************)
\* group(1) of a statement whose quoted name spans q..e and must be followed by ';'.
StatementName(line, q, e) ==
    IF MatchLit(line, e, Semicolon, FALSE) = None THEN NoText
    ELSE QuotedName(line, q, e)

NameBeforeSemicolon(line, q) == StatementName(line, q, QuotedEnd(line, q))

\* USE_DB_RE.match(line): group(1), or NoText when the line does not match.
UseDbName(line) ==
    NameBeforeSemicolon(line, Ws1(line, MatchLit(line, Ws0(line, 0), KwUse, TRUE)))

\* DROP_VIEW_RE.match(line): group(1), or NoText.
DropViewName(line) ==
    NameBeforeSemicolon(line,
        Ws1(line, MatchLit(line, Ws1(line, MatchLit(line, Ws1(line, MatchLit(line,
            Ws1(line, MatchLit(line, Ws0(line, 0), KwDrop, TRUE)),
            KwView, TRUE)), KwIf, TRUE)), KwExists, TRUE)))

\* group(1) of a quoted name that spans q..e, or NoText when there is none.
NameAt(line, q, e) == IF e = None THEN NoText ELSE QuotedName(line, q, e)

NameFrom(line, q) == NameAt(line, q, QuotedEnd(line, q))

\* (?:IF\s+NOT\s+EXISTS\s+) at index a: the index right after it, or None.
IfNotExistsEnd(line, a) ==
    Ws1(line, MatchLit(line, Ws1(line, MatchLit(line, Ws1(line,
        MatchLit(line, a, KwIf, TRUE)), KwNot, TRUE)), KwExists, TRUE))

\* The name after "CREATE TABLE " (ends at a), with the optional group ending at b.
CreateTableNameAt(line, a, b) ==
    IF b # None THEN NameFrom(line, b) ELSE NameFrom(line, a)

CreateTableNameFrom(line, a) == CreateTableNameAt(line, a, IfNotExistsEnd(line, a))

\* CREATE_TABLE_RE.match(line): group(1), or NoText.
CreateTableName(line) ==
    CreateTableNameFrom(line,
        Ws1(line, MatchLit(line, Ws1(line, MatchLit(line, Ws0(line, 0),
            KwCreate, TRUE)), KwTable, TRUE)))

\* ENGINE_LINE_RE.search(line)
IsEngineLine(line) ==
    \E i \in 0..(Len(line) - 1) :
        /\ At(line, i) = ")"
        /\ MatchLit(line, Ws0(line, MatchLit(line, Ws1(line, i + 1), KwEngine, TRUE)),
                    Equals, FALSE) # None

\* Fault model of the search: \s+ where the pattern has \s*, so that "ENGINE="
\* written without a blank is not seen.
HasOptionSpaced(rest, kw) ==
    \E i \in 0..(Len(rest) - 1) :
        MatchLit(rest, Ws1(rest, MatchLit(rest, MatchBoundary(rest, i), kw, TRUE)),
                 Equals, FALSE) # None

\* re.search(r'\b<kw>\s*=', rest, re.I)
HasOption(rest, kw) ==
    \E i \in 0..(Len(rest) - 1) :
        MatchLit(rest, Ws0(rest, MatchLit(rest, MatchBoundary(rest, i), kw, TRUE)),
                 Equals, FALSE) # None

\* re.search(r'\bDEFAULT\s+CHARSET\s*=', rest, re.I)
HasDefaultCharset(rest) ==
    \E i \in 0..(Len(rest) - 1) :
        MatchLit(rest, Ws0(rest, MatchLit(rest, Ws1(rest, MatchLit(rest,
                 MatchBoundary(rest, i), KwDefault, TRUE)), KwCharset, TRUE)),
                 Equals, FALSE) # None

\* s.split("_", 1)[0] when the first "_" of s is at index u.
SplitHead(s, u) == IF u = None THEN s ELSE Slice(s, 0, u)

\* table_collation.split("_", 1)[0]
CharsetOf(table_collation) == SplitHead(table_collation, Find(table_collation, <<"_">>, 0))

\* Fault model of the additions: every option is appended, present or not.
AdditionsAll(rest, info) ==
    <<" ","E","N","G","I","N","E","=">> \o info.engine
    \o (IF Len(info.row_format) > 0 THEN <<" ","R","O","W","_","F","O","R","M","A","T","=">> \o info.row_format ELSE <<>>)
    \o <<" ","D","E","F","A","U","L","T"," ","C","H","A","R","S","E","T","=">> \o CharsetOf(info.table_collation)
    \o <<" ","C","O","L","L","A","T","E","=">> \o info.table_collation

\* "".join(additions): the options to insert, in the order the source appends them.
Additions(rest, info) ==
    (IF ~HasOption(rest, KwEngine) THEN <<" ","E","N","G","I","N","E","=">> \o info.engine ELSE <<>>)
    \o (IF Len(info.row_format) > 0 /\ ~HasOption(rest, KwRowFormat)
        THEN <<" ","R","O","W","_","F","O","R","M","A","T","=">> \o info.row_format ELSE <<>>)
    \o (IF ~HasDefaultCharset(rest)
        THEN <<" ","D","E","F","A","U","L","T"," ","C","H","A","R","S","E","T","=">> \o CharsetOf(info.table_collation) ELSE <<>>)
    \o (IF ~HasOption(rest, KwCollate)
        THEN <<" ","C","O","L","L","A","T","E","=">> \o info.table_collation ELSE <<>>)

\* nl: the line ending of rest.
NlOf(rest) ==
    IF EndsWith(rest, <<"\r", "\n">>) THEN <<"\r", "\n">>
    ELSE IF EndsWith(rest, <<"\n">>) THEN <<"\n">>
    ELSE <<>>

RestCore(rest) == Slice(rest, 0, Len(rest) - Len(NlOf(rest)))

\* rest_core[:semi_pos] + "".join(additions) + rest_core[semi_pos:]
InsertAt(rest_core, additions, semi_pos) ==
    Slice(rest_core, 0, semi_pos) \o additions \o SliceFrom(rest_core, semi_pos)

NewRestCore(rest_core, additions) ==
    IF EndsWith(Rstrip(rest_core), Semicolon)
    THEN InsertAt(rest_core, additions, Rfind(rest_core, Semicolon))
    ELSE rest_core \o additions

\* new_rest_core + nl
NewRest(rest, info) == NewRestCore(RestCore(rest), Additions(rest, info)) \o NlOf(rest)

\* new_last_line for a last line whose first ")" is at close_idx.
AugmentAt(last_line, close_idx, info) ==
    IF close_idx = None THEN last_line
    ELSE Slice(last_line, 0, close_idx) \o <<")">>
             \o NewRest(SliceFrom(last_line, close_idx + 1), info)

AugmentLastLine(last_line, info) == AugmentAt(last_line, Find(last_line, <<")">>, 0), info)

\* "".join(lines) after lines[-1] = new_last_line
AugmentLines(lines, info) ==
    Join(SubSeq(lines, 1, Len(lines) - 1)) \o AugmentLastLine(lines[Len(lines)], info)

\* Fault model of the step below: the row is used without the test for a
\* missing engine or collation.
AugmentUnchecked(full, info) == AugmentLines(SplitLines(full), info)

\* The complete statement `full` as emitted when the metadata entry `info` was found.
Augment(full, info) ==
    IF Len(info.engine) = 0 \/ Len(info.table_collation) = 0 THEN full
    ELSE AugmentLines(SplitLines(full), info)

\* matches: the keys of table_meta that end with ".<current_table>".
KeyMatches(table_meta, current_table) ==
    {k \in DOMAIN table_meta : EndsWith(k, <<".">> \o current_table)}

UniqueKey(matches) ==
    IF Cardinality(matches) = 1 THEN CHOOSE k \in matches : TRUE ELSE NoText

\* The metadata key of current_table, or NoText (None) when there is none.
MetadataKey(table_meta, schema_to_use, current_table) ==
    IF Len(schema_to_use) > 0 THEN schema_to_use \o <<".">> \o current_table
    ELSE UniqueKey(KeyMatches(table_meta, current_table))

\* current_schema or default_schema
SchemaToUse(current_schema, default_schema) ==
    IF Len(current_schema) > 0 THEN current_schema ELSE default_schema

\* info = table_meta.get(key) if key else None, and what is emitted for it.
Lookup(full, table_meta, key) ==
    IF key \in DOMAIN table_meta THEN Augment(full, table_meta[key]) ELSE full

\* What is appended to out_lines for the statement `full`, closed by its ") ENGINE=" line.
ClosedStatement(full, acc, table_meta, default_schema) ==
    IF acc.current_table \in acc.skip_for_table THEN full
    ELSE Lookup(full, table_meta,
                MetadataKey(table_meta,
                            SchemaToUse(acc.current_schema, default_schema),
                            acc.current_table))

\* Fault model of the operator below: a USE statement is not tracked.
WithSchemaIgnored(acc, name) == acc

\* if m_use: current_schema = m_use.group(1)
WithSchema(acc, name) ==
    IF name # NoText THEN [acc EXCEPT !.current_schema = name] ELSE acc

\* The branch "if not in_create", where m_create.group(1) is `name`.
NotInCreate(line, acc, name) ==
    IF name # NoText
    THEN [acc EXCEPT !.in_create = TRUE, !.current_table = name, !.buffer = line]
    ELSE [acc EXCEPT !.out = acc.out \o line]

\* Fault model of the branch below: the table stays in skip_for_table after its
\* statement was emitted.
InCreateKeepingSkip(line, acc, table_meta, default_schema) ==
    IF IsEngineLine(line)
    THEN [acc EXCEPT
             !.out = acc.out \o ClosedStatement(acc.buffer \o line, acc,
                                                table_meta, default_schema),
             !.in_create = FALSE,
             !.current_table = NoText,
             !.buffer = NoText]
    ELSE [acc EXCEPT !.buffer = acc.buffer \o line]

\* Fault model of the branch below: the buffer is not emptied when the
\* statement was emitted.
InCreateKeepingBuffer(line, acc, table_meta, default_schema) ==
    IF IsEngineLine(line)
    THEN [acc EXCEPT
             !.out = acc.out \o ClosedStatement(acc.buffer \o line, acc,
                                                table_meta, default_schema),
             !.skip_for_table = acc.skip_for_table \ {acc.current_table},
             !.in_create = FALSE,
             !.current_table = NoText]
    ELSE [acc EXCEPT !.buffer = acc.buffer \o line]

\* The branch "else" (in_create): the line joins the buffer, and the statement
\* is emitted when this is its ") ENGINE=" line.
InCreate(line, acc, table_meta, default_schema) ==
    IF IsEngineLine(line)
    THEN [acc EXCEPT
             !.out = acc.out \o ClosedStatement(acc.buffer \o line, acc,
                                                table_meta, default_schema),
             !.skip_for_table = acc.skip_for_table \ {acc.current_table},
             !.in_create = FALSE,
             !.current_table = NoText,
             !.buffer = NoText]
    ELSE [acc EXCEPT !.buffer = acc.buffer \o line]

\* The loop body after the USE tracking, where m_dv.group(1) is dv.
EnhanceTracked(line, acc, dv, table_meta, default_schema) ==
    IF dv # NoText
    THEN [acc EXCEPT !.skip_for_table = acc.skip_for_table \cup {dv},
                     !.out = acc.out \o line]
    ELSE IF ~acc.in_create THEN NotInCreate(line, acc, CreateTableName(line))
    ELSE InCreate(line, acc, table_meta, default_schema)

\* One iteration of "for line in text.splitlines(keepends=True)".  acc holds the
\* locals: out (out_lines joined) and the working copies of the state fields.
EnhanceLine(line, acc, table_meta, default_schema) ==
    EnhanceTracked(line, WithSchema(acc, UseDbName(line)), DropViewName(line),
                   table_meta, default_schema)

RECURSIVE EnhanceLines(_, _, _, _)
EnhanceLines(lines, acc, table_meta, default_schema) ==
    IF Len(lines) = 0 THEN acc
    ELSE EnhanceLines(Tail(lines),
                      EnhanceLine(Head(lines), acc, table_meta, default_schema),
                      table_meta, default_schema)

\* The locals of enhance_create_table before its loop.
Locals(state, default_schema) ==
    [out |-> <<>>,
     current_schema |-> SchemaToUse(state.current_schema, default_schema),
     in_create |-> state.in_create,
     current_table |-> state.current_table,
     buffer |-> state.buffer,
     skip_for_table |-> state.skip_for_table]

\* "Update state" and the return value.
Result(acc) ==
    [text |-> acc.out,
     state |-> [current_schema |-> acc.current_schema,
                in_create |-> acc.in_create,
                current_table |-> acc.current_table,
                buffer |-> acc.buffer,
                skip_for_table |-> acc.skip_for_table]]

\* enhance_create_table(text, state, table_meta, default_schema): the returned
\* text and the updated state.
EnhanceCreateTable(text, state, table_meta, default_schema) ==
    IF DOMAIN table_meta = {} THEN [text |-> text, state |-> state]
    ELSE Result(EnhanceLines(SplitLines(text), Locals(state, default_schema),
                             table_meta, default_schema))

(***************************************************************************)
(* write_out(chunk) of process_dump_stream: the text handed to fout.write  *)
(* and the updated create_state.                                           *)
(***************************************************************************)
Sanitized(text, ddl) == IF ddl THEN SanitizeDdlForReproducibility(text) ELSE text

WithoutDrops(text, no_drop) == IF no_drop THEN StripDropStatements(text) ELSE text

\* The stages of write_out after enhance_create_table.
Rewritten(text, cfg) ==
    WithoutDrops(Sanitized(ReplaceUtcTimeZone(text), cfg.ddl), cfg.no_drop)

WriteEnhanced(e, cfg) == [text |-> Rewritten(e.text, cfg), state |-> e.state]

WriteOut(chunk, create_state, cfg) ==
    IF Len(chunk) = 0 THEN [text |-> <<>>, state |-> create_state]
    ELSE WriteEnhanced(EnhanceCreateTable(chunk, create_state, cfg.table_meta,
                                          cfg.default_schema), cfg)

Appended(text, r) == [text |-> text \o r.text, state |-> r.state]

\* Consecutive calls write_out(chunks[1]), write_out(chunks[2]), ...: everything
\* written, and the create_state left behind.
RECURSIVE WriteAll(_, _, _), WriteRest(_, _, _)
\* w is what the first call returned, r what the calls after it return.
WriteRest(w, chunks, cfg) ==
    CHOOSE a \in {Appended(w.text, r) : r \in {WriteAll(chunks, w.state, cfg)}} : TRUE

WriteAll(chunks, create_state, cfg) ==
    IF Len(chunks) = 0 THEN [text |-> <<>>, state |-> create_state]
    ELSE CHOOSE r \in {WriteRest(w, Tail(chunks), cfg) :
                           w \in {WriteOut(Head(chunks), create_state, cfg)}} : TRUE

(***************************************************************************)
(* process_dump_stream: the unwrap of one closed versioned comment.        *)
(***************************************************************************)
\* trailing_ws of _attach_leading_semicolon: group(1) of (\s*)\Z
TrailingWs(inner_sql) == SliceFrom(inner_sql, Len(inner_sql) - TrailingWsLen(inner_sql))

\* body of _attach_leading_semicolon
Body(inner_sql) == Slice(inner_sql, 0, Len(inner_sql) - TrailingWsLen(inner_sql))

\* _attach_leading_semicolon(inner_sql)
AttachLeadingSemicolon(inner_sql) ==
    IF EndsWith(Rstrip(Body(inner_sql)), Semicolon) THEN inner_sql
    ELSE Body(inner_sql) \o Semicolon \o TrailingWs(inner_sql)

\* The blank-line normalisation applied to the tail after its ';' was consumed.
CollapseBlankLine(inner, tail) ==
    IF EndsWith(inner, <<"\n">>)
       /\ (StartsWith(tail, <<"\n", "\n">>) \/ StartsWith(tail, <<"\r", "\n", "\r", "\n">>))
    THEN IF StartsWith(tail, <<"\n", "\n">>) THEN SliceFrom(tail, 1) ELSE SliceFrom(tail, 2)
    ELSE tail

\* The branch "version < version_threshold": the chunks passed to write_out, in
\* order, and the tail the scan continues on.
Unwrap(inner, tail) ==
    IF StartsWith(tail, Semicolon)
    THEN IF EndsWith(Rstrip(inner), Semicolon)
         THEN [chunks |-> <<inner, inner>>,
               tail |-> CollapseBlankLine(inner, SliceFrom(tail, 1))]
         ELSE [chunks |-> <<AttachLeadingSemicolon(inner), inner>>,
               tail |-> CollapseBlankLine(inner, SliceFrom(tail, 1))]
    ELSE [chunks |-> <<>>, tail |-> tail]

\* Fault model of the test: a block at the threshold is unwrapped too.
ShouldUnwrapInclusive(version, version_threshold) == version <= version_threshold

\* The test that decides between unwrapping and keeping a block.
ShouldUnwrap(version, version_threshold) == version < version_threshold

\* int(version_str) of a comment whose digits end at digits_end.
VersionOf(comment, digits_end) == ParseInt(Slice(comment, 3, digits_end))

\* "Keep the whole comment block as-is".
Keep(comment, end_pos) ==
    [chunks |-> <<Slice(comment, 0, end_pos + 2)>>, tail |-> SliceFrom(comment, end_pos + 2)]

\* What is done with a complete comment (end_pos found): the chunks passed to
\* write_out after line[pos:idx], and the new value of line.
CommentOutput(comment, end_pos, digits_end, version_threshold) ==
    IF ShouldUnwrap(VersionOf(comment, digits_end), version_threshold)
    THEN Unwrap(Slice(comment, digits_end, end_pos), SliceFrom(comment, end_pos + 2))
    ELSE Keep(comment, end_pos)

(***************************************************************************)
(* enhance_create_table of src/strip-mysql-compatibility-comments.py, the  *)
(* standalone script.  Its patterns are those of post-process-dump.py; its *)
(* state has no skip_for_table.                                            *)
(***************************************************************************)
\* indent: last_line[:close_idx], or "" when the line has no ")".
IndentOf(last_line, close_idx) ==
    IF close_idx = None THEN NoText ELSE Slice(last_line, 0, close_idx)

\* newline: the line ending of last_line, or "\n" when the line has no ")".
NewlineOf(last_line, close_idx) ==
    IF close_idx = None THEN Newline
    ELSE IF EndsWith(last_line, <<"\r", "\n">>) THEN <<"\r", "\n">>
    ELSE IF EndsWith(last_line, Newline) THEN Newline
    ELSE NoText

\* new_last_line: "".join(parts) + newline.
NewLastLine(last_line, info) ==
    IndentOf(last_line, Find(last_line, <<")">>, 0)) \o <<")"," ","E","N","G","I","N","E","=">> \o info.engine
    \o (IF Len(info.row_format) > 0 THEN <<" ","R","O","W","_","F","O","R","M","A","T","=">> \o info.row_format ELSE <<>>)
    \o <<" ","D","E","F","A","U","L","T"," ","C","H","A","R","S","E","T","=">> \o CharsetOf(info.table_collation)
    \o <<" ","C","O","L","L","A","T","E","=">> \o info.table_collation \o <<";">>
    \o NewlineOf(last_line, Find(last_line, <<")">>, 0))

\* lines[-1] = new_last_line; full = "".join(lines)
Rebuilt(lines, info) ==
    Join(SubSeq(lines, 1, Len(lines) - 1)) \o NewLastLine(lines[Len(lines)], info)

\* info = table_meta.get(key) if key else None, and the statement for it.
StandaloneLookup(full, table_meta, key) ==
    IF key \in DOMAIN table_meta THEN Rebuilt(SplitLines(full), table_meta[key]) ELSE full

\* The branch "else" (in_create) of the standalone script.
StandaloneInCreate(line, acc, table_meta, default_schema) ==
    IF IsEngineLine(line)
    THEN [acc EXCEPT
             !.out = acc.out \o StandaloneLookup(acc.buffer \o line, table_meta,
                         MetadataKey(table_meta,
                                     SchemaToUse(acc.current_schema, default_schema),
                                     acc.current_table)),
             !.in_create = FALSE,
             !.current_table = NoText,
             !.buffer = NoText]
    ELSE [acc EXCEPT !.buffer = acc.buffer \o line]

\* One iteration of the loop over the lines, after the USE tracking.
StandaloneTracked(line, acc, table_meta, default_schema) ==
    IF ~acc.in_create THEN NotInCreate(line, acc, CreateTableName(line))
    ELSE StandaloneInCreate(line, acc, table_meta, default_schema)

RECURSIVE StandaloneLines(_, _, _, _)
StandaloneLines(lines, acc, table_meta, default_schema) ==
    IF Len(lines) = 0 THEN acc
    ELSE StandaloneLines(Tail(lines),
             StandaloneTracked(Head(lines), WithSchema(acc, UseDbName(Head(lines))),
                               table_meta, default_schema),
             table_meta, default_schema)

\* The state of the standalone script before the first chunk.
StandaloneInitialState ==
    [current_schema |-> NoText, in_create |-> FALSE, current_table |-> NoText,
     buffer |-> NoText]

\* The locals before the loop.
StandaloneLocals(state, default_schema) ==
    [out |-> <<>>,
     current_schema |-> SchemaToUse(state.current_schema, default_schema),
     in_create |-> state.in_create,
     current_table |-> state.current_table,
     buffer |-> state.buffer]

\* "Update state" and the return value.
StandaloneResult(acc) ==
    [text |-> acc.out,
     state |-> [current_schema |-> acc.current_schema,
                in_create |-> acc.in_create,
                current_table |-> acc.current_table,
                buffer |-> acc.buffer]]

\* enhance_create_table(text, state, table_meta, default_schema) of the
\* standalone script: the returned text and the updated state.
StandaloneEnhanceCreateTable(text, state, table_meta, default_schema) ==
    IF DOMAIN table_meta = {} THEN [text |-> text, state |-> state]
    ELSE StandaloneResult(StandaloneLines(SplitLines(text),
                                          StandaloneLocals(state, default_schema),
                                          table_meta, default_schema))

(***************************************************************************)
(* Files.                                                                  *)
(***************************************************************************)
\* Text mode with universal newlines: what reading the file yields.  Each "\r\n"
\* and each other "\r" becomes "\n"; r is the index of the first "\r".
RECURSIVE TranslateNewlines(_), TranslateAt(_, _)
TranslateAt(s, r) ==
    IF r = None THEN s
    ELSE Slice(s, 0, r) \o Newline
             \o TranslateNewlines(SliceFrom(s, BreakEnd(s, r)))

TranslateNewlines(s) == TranslateAt(s, Find(s, <<"\r">>, 0))

\* The first line of f when its first "\n" is at index j.
LineThrough(f, j) == IF j = None THEN f ELSE Slice(f, 0, j + 1)

\* fin.readline() on the unread text f: the line, through its "\n" if it has one.
FirstLine(f) == LineThrough(f, Find(f, Newline, 0))

Header ==
    <<"-","-"," ","D","u","m","p"," ","c","r","e","a","t","e","d"," ","w","i","t","h"," ","D","B"," ","m","i","g","r","a","t","i","o","n"," ","t","o","o","l","s"," ","("," ">>
    \o <<"h","t","t","p","s",":","/","/","g","i","t","h","u","b",".","c","o","m","/","u","t","i","l","m","i","n","d","/","M","y","S","Q","L","-","m","i","g","r","a","t","i","o","n","-","t","o","o","l","s"," ",")","\n","\n">>

\* What is written for a non-empty prepend file.
PrependBlock(prepend_content) ==
    prepend_content
    \o (IF EndsWith(prepend_content, <<"\n">>) \/ EndsWith(prepend_content, <<"\r">>)
        THEN <<>> ELSE <<"\n">>)
    \o <<"\n">>

\* What is written before the first line is read: the header, the prepend
\* file and the USE statement.
Preamble(cfg) ==
    Header
    \o (IF cfg.prepend_file /\ Len(cfg.prepend_content) > 0
        THEN PrependBlock(cfg.prepend_content) ELSE <<>>)
    \o (IF Len(cfg.db_name) > 0
        THEN <<"\n","U","S","E"," ">> \o <<Backtick>> \o cfg.db_name \o <<Backtick>> \o <<";","\n","\n">>
        ELSE <<>>)

InitialCreateState(default_schema) ==
    [current_schema |-> default_schema,
     in_create |-> FALSE,
     current_table |-> NoText,
     buffer |-> NoText,
     skip_for_table |-> {}]

(***************************************************************************)
(* Progress.  Every percentage of a run is a multiple of 1/total_size, so  *)
(* a percentage x is held as the integer x * Den(total_size).              *)
(***************************************************************************)
\* A byte of the file that is not valid UTF-8, and the character that
\* open(..., errors="replace") decodes it to.
InvalidByte == "[invalid byte]"

ReplacementChar == "[U+FFFD]"

\* The text that decoding the bytes of the file yields.
Decode(bytes) ==
    [i \in 1..Len(bytes) |-> IF bytes[i] = InvalidByte THEN ReplacementChar ELSE bytes[i]]

\* os.path.getsize(in_path): every character of the model is one byte in the file.
TotalSize(bytes) == Len(bytes)

\* len(text.encode("utf-8", errors="replace")): U+FFFD is three bytes, every
\* other character of the model is one.
EncodedLen(text) ==
    Len(text) + 2 * Cardinality({i \in 1..Len(text) : text[i] = ReplacementChar})

Den(total_size) == IF total_size <= 0 THEN 1 ELSE total_size

\* percent of report_progress, times Den(total_size).
Percent(processed_bytes, total_size) ==
    IF total_size <= 0 THEN 100 ELSE processed_bytes * 100

\* percent - last >= 1.0 or percent == 100.0
Reports(processed_bytes, total_size, last) ==
    \/ Percent(processed_bytes, total_size) - last >= Den(total_size)
    \/ Percent(processed_bytes, total_size) = 100 * Den(total_size)

\* last_percent_reported = report_progress(processed_bytes, total_size,
\* last_percent_reported)
ReportProgress(p, processed_bytes, total_size) ==
    IF Reports(processed_bytes, total_size, p.last_percent_reported)
    THEN [p EXCEPT !.last_percent_reported = Percent(processed_bytes, total_size),
                   !.stderr = Append(@, Percent(processed_bytes, total_size))]
    ELSE p

\* processed_bytes = 0, last_percent_reported = -1.0
NoProgress(total_size) ==
    [processed_bytes |-> 0, last_percent_reported |-> -Den(total_size), stderr |-> <<>>]

\* processed_bytes += len(line.encode(...)), then the report.
LineRead(p, text, total_size) ==
    ReportProgress([p EXCEPT !.processed_bytes = @ + EncodedLen(text)],
                   p.processed_bytes + EncodedLen(text), total_size)

(***************************************************************************)
(* State.                                                                  *)
(*   cfg           the arguments of process_dump_stream                    *)
(*   input         the content of the file in_path                         *)
(*   fin           the text of fin not read yet                            *)
(*   out           the content of the file out_path                        *)
(*   emitted       everything passed to write_out so far, concatenated     *)
(*   line, pos, idx, comment   the locals of the scanning loop             *)
(*   create_state  the state of enhance_create_table                       *)
(*   pc            "read": at fin.readline() of the outer loop;            *)
(*                 "scan": at line.find("/*!", pos);                       *)
(*                 "collect": at find_conditional_end(comment);            *)
(*                 "done": returned;                                       *)
(*                 "find", "found": before and after a call of             *)
(*                 find_conditional_end on its own                         *)
(*   run, first_out   the number of the run, and the output of run 1 when  *)
(*                 the tool is run again on its own output                 *)
(*   found         the last value returned by find_conditional_end         *)
(*   progress      processed_bytes, last_percent_reported and the          *)
(*                 percentages written to stderr so far                    *)
(*   preimport     the arguments, the files and the locals of main() of    *)
(*                 pre-import.py                                           *)
(***************************************************************************)
VARIABLES cfg, input, fin, out, emitted, line, pos, idx, comment, create_state, pc,
          run, first_out, found, progress, preimport

vars == <<cfg, input, fin, out, emitted, line, pos, idx, comment, create_state, pc,
          run, first_out, found, progress, preimport>>

\* pre-import.py is not running.
NoPreImport == [status |-> None]

\* main() passes version_threshold=80000, which is also the default.
DefaultThreshold == 80000

NoMeta == <<>>

NotFound == [end_pos |-> None, digits_end |-> None]

DefaultCfg ==
    [version_threshold |-> DefaultThreshold,
     table_meta |-> NoMeta,
     default_schema |-> NoText,
     db_name |-> NoText,
     no_drop |-> FALSE,
     prepend_file |-> FALSE,
     prepend_content |-> NoText,
     ddl |-> FALSE]

\* Every concatenation of at most n of the given text fragments.
Texts(fragments, n) ==
    {Join(ts) : ts \in UNION {[1..k -> fragments] : k \in 0..n}}

\* The state at the first fin.readline(), for an input file and arguments.
Begin(inputs, cfgs) ==
    /\ cfg \in cfgs
    /\ input \in inputs
    /\ fin = TranslateNewlines(Decode(input))
    /\ out = Preamble(cfg)
    /\ emitted = <<>>
    /\ line = <<>>
    /\ pos = 0
    /\ idx = None
    /\ comment = <<>>
    /\ create_state = InitialCreateState(cfg.default_schema)
    /\ pc = "read"
    /\ run = 1
    /\ first_out = <<>>
    /\ found = NotFound
    /\ progress = NoProgress(TotalSize(input))
    /\ preimport = NoPreImport

\* The effect of the calls write_out(chunks[1]); write_out(chunks[2]); ... whose
\* combined result is w.
Written(w, chunks) ==
    /\ out' = out \o w.text
    /\ create_state' = w.state
    /\ emitted' = emitted \o Join(chunks)

\* write_out(chunks[1]); write_out(chunks[2]); ...: w is what the calls return.
Write(chunks) == \E w \in {WriteAll(chunks, create_state, cfg)} : Written(w, chunks)

\* line = fin.readline() returned a line.
ReadLine ==
    /\ pc = "read"
    /\ Len(fin) > 0
    /\ line' = FirstLine(fin)
    /\ fin' = SliceFrom(fin, Len(FirstLine(fin)))
    /\ pos' = 0
    /\ pc' = "scan"
    /\ progress' = LineRead(progress, FirstLine(fin), TotalSize(input))
    /\ UNCHANGED <<cfg, input, out, emitted, idx, comment, create_state, run,
                   first_out, found, preimport>>

\* line = fin.readline() returned "": end of input, the loop is left.
EndOfInput ==
    /\ pc = "read"
    /\ Len(fin) = 0
    /\ pc' = "done"
    /\ progress' = ReportProgress(progress, TotalSize(input), TotalSize(input))
    /\ UNCHANGED <<cfg, input, fin, out, emitted, line, pos, idx, comment,
                   create_state, run, first_out, found, preimport>>

\* idx == -1: no more markers in this line.
NoMarker ==
    /\ pc = "scan"
    /\ Find(line, Marker, pos) = None
    /\ idx' = None
    /\ Write(<<SliceFrom(line, pos)>>)
    /\ pc' = "read"
    /\ UNCHANGED <<cfg, input, fin, line, pos, comment, run, first_out, found,
                   progress, preimport>>

\* Fault model of the step below: the text before the marker is written, the
\* marker itself is not.
LiteralMarkerSkipped ==
    /\ pc = "scan"
    /\ Find(line, Marker, pos) # None
    /\ idx' = Find(line, Marker, pos)
    /\ DigitsEnd(line, idx' + 3) = idx' + 3
    /\ Write(<<Slice(line, pos, idx')>>)
    /\ pos' = idx' + 3
    /\ UNCHANGED <<cfg, input, fin, line, comment, pc, run, first_out, found,
                   progress, preimport>>

\* Fault model of the step below: the scan goes on at the marker, not behind it.
LiteralMarkerStuck ==
    /\ pc = "scan"
    /\ Find(line, Marker, pos) # None
    /\ idx' = Find(line, Marker, pos)
    /\ DigitsEnd(line, idx' + 3) = idx' + 3
    /\ Write(<<Slice(line, pos, idx')>>)
    /\ pos' = idx'
    /\ UNCHANGED <<cfg, input, fin, line, comment, pc, run, first_out, found,
                   progress, preimport>>

\* "/*!" with no digit after it: written as text, the scan goes on behind it.
LiteralMarker ==
    /\ pc = "scan"
    /\ Find(line, Marker, pos) # None
    /\ idx' = Find(line, Marker, pos)
    /\ DigitsEnd(line, idx' + 3) = idx' + 3
    /\ Write(<<Slice(line, pos, idx' + 3)>>)
    /\ pos' = idx' + 3
    /\ UNCHANGED <<cfg, input, fin, line, comment, pc, run, first_out, found,
                   progress, preimport>>

\* "/*!<digits>" found at idx: comment = line[idx:].
BeginComment ==
    /\ pc = "scan"
    /\ Find(line, Marker, pos) # None
    /\ idx' = Find(line, Marker, pos)
    /\ DigitsEnd(line, idx' + 3) > idx' + 3
    /\ comment' = SliceFrom(line, idx')
    /\ pc' = "collect"
    /\ UNCHANGED <<cfg, input, fin, out, emitted, line, pos, create_state, run,
                   first_out, found, progress, preimport>>

\* Fault model of the step below: the next line replaces what was collected.
ReadMoreReplacing ==
    /\ pc = "collect"
    /\ FindConditionalEnd(comment).end_pos = None
    /\ Len(fin) > 0
    /\ comment' = FirstLine(fin)
    /\ fin' = SliceFrom(fin, Len(FirstLine(fin)))
    /\ progress' = LineRead(progress, FirstLine(fin), TotalSize(input))
    /\ UNCHANGED <<cfg, input, out, emitted, line, pos, idx, create_state, pc,
                   run, first_out, found, preimport>>

\* The comment is not closed yet and there is a next line: comment += next_line.
ReadMore ==
    /\ pc = "collect"
    /\ FindConditionalEnd(comment).end_pos = None
    /\ Len(fin) > 0
    /\ comment' = comment \o FirstLine(fin)
    /\ fin' = SliceFrom(fin, Len(FirstLine(fin)))
    /\ progress' = LineRead(progress, FirstLine(fin), TotalSize(input))
    /\ UNCHANGED <<cfg, input, out, emitted, line, pos, idx, create_state, pc,
                   run, first_out, found, preimport>>

\* End of input inside the comment: what was collected is written, and return.
EofInComment ==
    /\ pc = "collect"
    /\ FindConditionalEnd(comment).end_pos = None
    /\ Len(fin) = 0
    /\ Write(<<Slice(line, pos, idx), comment>>)
    /\ pc' = "done"
    /\ progress' = ReportProgress(progress, TotalSize(input), TotalSize(input))
    /\ UNCHANGED <<cfg, input, fin, line, pos, idx, comment, run, first_out,
                   found, preimport>>

\* write_out(line[pos:idx]), the chunks decided for the comment, line = tail.
Continue(c) ==
    /\ Write(<<Slice(line, pos, idx)>> \o c.chunks)
    /\ line' = c.tail

\* The steps after the collecting loop, where find_conditional_end returned f.
Closed(f) == Continue(CommentOutput(comment, f.end_pos, f.digits_end, cfg.version_threshold))

\* The comment is complete: it is unwrapped or kept, and the scan goes on in
\* the text after it.
CloseComment ==
    /\ pc = "collect"
    /\ FindConditionalEnd(comment).end_pos # None
    /\ Closed(FindConditionalEnd(comment))
    /\ pos' = 0
    /\ pc' = "scan"
    /\ UNCHANGED <<cfg, input, fin, idx, comment, run, first_out, found,
                   progress, preimport>>

Next ==
    \/ ReadLine
    \/ EndOfInput
    \/ NoMarker
    \/ LiteralMarker
    \/ BeginComment
    \/ ReadMore
    \/ EofInComment
    \/ CloseComment

\* The longest input, in fragments.
MaxTokens == 4

\* The fragments the inputs are made of: a block below the threshold, a block
\* at the threshold, a marker without digits, a block end, a statement
\* terminator, a line end, plain text, a time-zone statement and the start of
\* a line comment.
Tokens ==
    {<<"/","*","!","7","9","9","9","9">>, <<"/","*","!","8","0","0","0","0">>, Marker, StarSlash, Semicolon, Newline, <<"a">>,
     <<"S","E","T"," ","t","i","m","e","_","z","o","n","e","=","'","U","T","C","'">>, <<"-","-"," ">>}

Init == Begin(Texts(Tokens, MaxTokens), {DefaultCfg})

Spec == Init /\ [][Next]_vars

(***************************************************************************)
(* pre-import.py: collation names.                                         *)
(***************************************************************************)
Lower(c) == IF c \in UpperLetters THEN CHOOSE l \in LowerLetters : UpperMap[l] = c ELSE c

\* str.strip()
Strip(s) == Lstrip(Rstrip(s))

\* collation_aliases(name): the name and its utf8/utf8mb3 synonym.
CollationAliases(name) ==
    {name} \cup
    (IF StartsWith(name, <<"u","t","f","8","_">>) THEN {<<"u","t","f","8","m","b","3","_">> \o SliceFrom(name, 5)}
     ELSE IF StartsWith(name, <<"u","t","f","8","m","b","3","_">>) THEN {<<"u","t","f","8","_">> \o SliceFrom(name, 8)}
     ELSE {})

\* coll.split("_", 1)[0] when the first "_" is at index u.
SplitBase(coll, u) == IF u = None THEN coll ELSE Slice(coll, 0, u)

\* coll.split("_", 1)[0].lower()
BaseOf(coll) ==
    [i \in 1..Len(SplitBase(coll, Find(coll, <<"_">>, 0))) |-> Lower(coll[i])]

\* canonical_charset_from_collation(coll)
CanonicalCharsetFromCollation(coll) ==
    IF BaseOf(coll) = <<"u","t","f","8">> THEN <<"u","t","f","8","m","b","3">> ELSE BaseOf(coll)

(***************************************************************************)
(* pre-import.py: the three patterns of a collation reference.             *)
(*   "eq"    COLLATE\s*=\s*<name>                                          *)
(*   "ws"    COLLATE\s+<name>                                              *)
(*   "conn"  SET\s+(?:@@session\.)?collation_connection\s*=\s*'?<name>'?\s*; *)
(***************************************************************************)
RefKinds == {"eq", "ws", "conn"}

Quote == <<"'">>

\* An optional literal: taken when it is there.
OptLit(s, i, w) ==
    IF i = None THEN None
    ELSE IF MatchLit(s, i, w, TRUE) # None THEN MatchLit(s, i, w, TRUE) ELSE i

\* The part of a pattern before the name, at index i: the index where the
\* name starts, or None.
NameStart(s, i, kind) ==
    IF kind = "eq"
    THEN Ws0(s, MatchLit(s, Ws0(s, MatchLit(s, MatchBoundary(s, i), KwCollate, TRUE)),
                         Equals, FALSE))
    ELSE IF kind = "ws"
    THEN Ws1(s, MatchLit(s, MatchBoundary(s, i), KwCollate, TRUE))
    ELSE OptLit(s, Ws0(s, MatchLit(s, Ws0(s, MatchLit(s,
             OptLit(s, Ws1(s, MatchLit(s, MatchBoundary(s, i), KwSet, TRUE)),
                    <<"@","@","s","e","s","s","i","o","n",".">>),
             <<"c","o","l","l","a","t","i","o","n","_","c","o","n","n","e","c","t","i","o","n">>, TRUE)), Equals, FALSE)), Quote)

\* Length of the maximal run of [0-9A-Za-z_] that starts at index i of s.
RECURSIVE WordRun(_, _)
WordRun(s, i) == IF i < Len(s) /\ IsWordChar(At(s, i)) THEN 1 + WordRun(s, i + 1) ELSE 0

\* ([0-9A-Za-z_]+) at index i: the index right after it, or None.
NameEnd(s, i) == IF i = None \/ WordRun(s, i) = 0 THEN None ELSE i + WordRun(s, i)

\* The part of a pattern after the name, which ends at n: \b, and for the
\* connection statement '?\s*;
RefTail(s, n, kind) ==
    IF kind = "conn"
    THEN MatchLit(s, Ws0(s, OptLit(s, MatchBoundary(s, n), Quote)), Semicolon, FALSE)
    ELSE MatchBoundary(s, n)

\* The scanning pattern of a kind at index i: the end of the match, or None.
ScanEnd(s, i, kind) == RefTail(s, NameEnd(s, NameStart(s, i, kind)), kind)

ScanStarts(s, p, kind) == {i \in p..(Len(s) - 1) : ScanEnd(s, i, kind) # None}

\* The names that finditer of a kind yields in s from index p on; m is the
\* start of the next match.
RECURSIVE ScanKind(_, _, _), ScanKindAt(_, _, _)
ScanKindAt(s, m, kind) ==
    {Slice(s, NameStart(s, m, kind), NameEnd(s, NameStart(s, m, kind)))}
        \cup ScanKind(s, ScanEnd(s, m, kind), kind)

ScanKind(s, p, kind) ==
    IF ScanStarts(s, p, kind) = {} THEN {}
    ELSE ScanKindAt(s, MinOf(ScanStarts(s, p, kind)), kind)

\* The names found in one chunk.
ScanChunk(chunk) == UNION {ScanKind(chunk, 0, kind) : kind \in RefKinds}

\* The chunks that f.read(chunk_size) returns, by number.
ChunkNumbers(text, chunk_size) == 0..((Len(text) - 1) \div chunk_size)

Chunk(text, chunk_size, k) == Slice(text, k * chunk_size, (k + 1) * chunk_size)

\* scan_dump_for_collations(path, chunk_size), for the text of the file.
ScanDumpForCollations(text, chunk_size) ==
    UNION {ScanChunk(Chunk(text, chunk_size, k)) : k \in ChunkNumbers(text, chunk_size)}

(***************************************************************************)
(* pre-import.py: build_replacements.                                      *)
(***************************************************************************)
\* is_supported(coll)
IsSupported(coll, supported) == CollationAliases(coll) \cap supported # {}

\* Fault model of the operator below: the name as it is mapped.
BestSupportedNameExact(coll, supported) == coll

\* best_supported_name(coll): the name if the target has it, else the alias
\* that the target has.
BestSupportedName(coll, supported) ==
    IF coll \in supported THEN coll
    ELSE IF CollationAliases(coll) \cap supported # {}
    THEN CHOOSE alt \in CollationAliases(coll) \cap supported : TRUE
    ELSE coll

\* mapping.get(c, "").strip()
Mapped(c, mapping) == Strip(IF c \in DOMAIN mapping THEN mapping[c] ELSE NoText)

\* Fault model of the operator below: no mapping is blocked.
BlockedNever(c, mapped, allow_charset_change) == FALSE

\* (src_cs != dst_cs) and (not allow_charset_change)
Blocked(c, mapped, allow_charset_change) ==
    /\ CanonicalCharsetFromCollation(c) # CanonicalCharsetFromCollation(mapped)
    /\ ~allow_charset_change

\* What invalid_targets holds for a blocked mapping.
BlockedText(c, mapped) ==
    mapped \o <<" ","(","b","l","o","c","k","e","d",":"," ","c","h","a","r","s","e","t"," ","c","h","a","n","g","e"," ">> \o CanonicalCharsetFromCollation(c)
        \o <<" ","-",">"," ">> \o CanonicalCharsetFromCollation(mapped)
        \o <<";"," ","u","s","e"," ","-","-","a","l","l","o","w","-","c","h","a","r","s","e","t","-","c","h","a","n","g","e"," ","t","o"," ","o","v","e","r","r","i","d","e",")">>

\* The referenced collations that the loop does not skip.
NotSupported(referenced, supported) == {c \in referenced : ~IsSupported(c, supported)}

MissingOf(referenced, supported, mapping) ==
    {c \in NotSupported(referenced, supported) : Mapped(c, mapping) = NoText}

\* Fault model of the operator below: a collation without a mapping goes on to
\* the tests of its mapping.
InvalidOfAny(referenced, supported, mapping, allow_charset_change) ==
    {c \in NotSupported(referenced, supported) :
        \/ Blocked(c, Mapped(c, mapping), allow_charset_change)
        \/ ~IsSupported(Mapped(c, mapping), supported)}

\* The collations with a mapping that is blocked or that the target lacks.
InvalidOf(referenced, supported, mapping, allow_charset_change) ==
    {c \in NotSupported(referenced, supported) \ MissingOf(referenced, supported, mapping) :
        \/ Blocked(c, Mapped(c, mapping), allow_charset_change)
        \/ ~IsSupported(Mapped(c, mapping), supported)}

\* build_replacements(referenced, supported, mapping, allow_charset_change)
BuildReplacements(referenced, supported, mapping, allow_charset_change) ==
    [replacements |->
        [c \in (NotSupported(referenced, supported)
                    \ MissingOf(referenced, supported, mapping))
                    \ InvalidOf(referenced, supported, mapping, allow_charset_change)
            |-> BestSupportedName(Mapped(c, mapping), supported)],
     missing |-> MissingOf(referenced, supported, mapping),
     invalid_targets |->
        [c \in InvalidOf(referenced, supported, mapping, allow_charset_change)
            |-> IF Blocked(c, Mapped(c, mapping), allow_charset_change)
                THEN BlockedText(c, Mapped(c, mapping))
                ELSE Mapped(c, mapping)]]

(***************************************************************************)
(* pre-import.py: apply_replacements_stream.                               *)
(***************************************************************************)
\* The pattern of a kind for the collation src at index i: the end of the
\* match, or None.
RefEnd(s, i, kind, src) ==
    RefTail(s, MatchLit(s, NameStart(s, i, kind), src, TRUE), kind)

RefStarts(s, p, kind, src) == {i \in p..(Len(s) - 1) : RefEnd(s, i, kind, src) # None}

\* pat.sub(repl, s) for the pattern of a kind, from index p on; m is the start
\* of the next match: the text before the name, dst, the text after the name.
RECURSIVE SubRef(_, _, _, _, _), SubRefAt(_, _, _, _, _, _)
SubRefAt(s, p, kind, src, dst, m) ==
    Slice(s, p, NameStart(s, m, kind)) \o dst
        \o Slice(s, NameStart(s, m, kind) + Len(src), RefEnd(s, m, kind, src))
        \o SubRef(s, RefEnd(s, m, kind, src), kind, src, dst)

SubRef(s, p, kind, src, dst) ==
    IF RefStarts(s, p, kind, src) = {} THEN SliceFrom(s, p)
    ELSE SubRefAt(s, p, kind, src, dst, MinOf(RefStarts(s, p, kind, src)))

\* The three substitutions for one entry of replacements.
SubEntry(s, src, dst) ==
    SubRef(SubRef(SubRef(s, 0, "eq", src, dst), 0, "ws", src, dst), 0, "conn", src, dst)

\* The substitutions for the entries whose keys are todo, one entry after the
\* other.  No name of the model matches the replacement of another, so the
\* order of the entries does not show in the result.
RECURSIVE SubAll(_, _, _), SubFrom(_, _, _, _)
SubFrom(s, replacements, todo, src) ==
    SubAll(SubEntry(s, src, replacements[src]), replacements, todo \ {src})

SubAll(s, replacements, todo) ==
    IF todo = {} THEN s
    ELSE SubFrom(s, replacements, todo, CHOOSE src \in todo : TRUE)

\* The chunks from number k on, each rewritten and written.
RECURSIVE ApplyFrom(_, _, _, _)
ApplyFrom(text, replacements, chunk_size, k) ==
    IF k * chunk_size >= Len(text) THEN <<>>
    ELSE SubAll(Chunk(text, chunk_size, k), replacements, DOMAIN replacements)
             \o ApplyFrom(text, replacements, chunk_size, k + 1)

\* What apply_replacements_stream writes for the text that fin yields.
ApplyReplacementsStream(text, replacements, chunk_size) ==
    ApplyFrom(text, replacements, chunk_size, 0)

(***************************************************************************)
(* Runs with table metadata: enhance_create_table is active.               *)
(***************************************************************************)
\* One row of the metadata TSV, for the table t of the schema db.
MetaCfg ==
    [version_threshold |-> DefaultThreshold,
     table_meta |-> (<<"d","b",".","t">> :> [engine |-> <<"I","n","n","o","D","B">>,
                                 row_format |-> <<"D","Y","N","A","M","I","C">>,
                                 table_collation |-> <<"u","t","f","8","m","b","4","_","u","n","i","c","o","d","e","_","c","i">>]),
     default_schema |-> <<"d","b">>,
     db_name |-> NoText,
     no_drop |-> FALSE,
     prepend_file |-> FALSE,
     prepend_content |-> NoText,
     ddl |-> FALSE]

\* The longest input of a run with metadata, in fragments.
MaxMetaTokens == 4

\* The first and the closing line of a CREATE TABLE statement, a plain line, a
\* block below the threshold, a block end, a marker without digits, a terminator.
MetaTokens ==
    {<<"C","R","E","A","T","E"," ","T","A","B","L","E"," ">> \o <<Backtick>> \o <<"t">> \o <<Backtick>> \o <<" ","(","\n">>,
     <<")"," ","E","N","G","I","N","E","=","I","n","n","o","D","B",";","\n">>, <<"a","\n">>, <<"/","*","!","5">>, StarSlash, Marker, Semicolon}

InitMeta == Begin(Texts(MetaTokens, MaxMetaTokens), {MetaCfg})

SpecMeta == InitMeta /\ [][Next]_vars

(***************************************************************************)
(* The tool run again on its own output.                                   *)
(***************************************************************************)
\* process_dump_stream called with the finished output of run 1 as in_path and
\* the same arguments: the state at its first fin.readline().
Rerun ==
    /\ pc = "done"
    /\ run = 1
    /\ run' = 2
    /\ first_out' = out
    /\ input' = out
    /\ fin' = TranslateNewlines(Decode(out))
    /\ out' = Preamble(cfg)
    /\ emitted' = <<>>
    /\ line' = <<>>
    /\ pos' = 0
    /\ idx' = None
    /\ comment' = <<>>
    /\ create_state' = InitialCreateState(cfg.default_schema)
    /\ pc' = "read"
    /\ progress' = NoProgress(TotalSize(out))
    /\ UNCHANGED <<cfg, found, preimport>>

NextTwice ==
    \/ Next
    \/ Rerun

\* The longest input of the first run, in fragments.
MaxRerunTokens == 3

InitTwice == Begin(Texts(Tokens, MaxRerunTokens), {DefaultCfg})

SpecTwice == InitTwice /\ [][NextTwice]_vars

(***************************************************************************)
(* find_conditional_end on its own.                                        *)
(***************************************************************************)
\* The longest text after the digits, in fragments.
MaxFindTokens == 5

FindTokens == {SlashStar, StarSlash, <<"/">>, <<"*">>, <<"a">>}

\* The digit runs after "/*!": none, one digit, several digits.
FindDigits == {NoText, <<"5">>, <<"8","0","0","0","0">>}

FindInputs ==
    {Marker \o d \o t : d \in FindDigits, t \in Texts(FindTokens, MaxFindTokens)}

InitFind ==
    /\ cfg = DefaultCfg
    /\ input = <<>>
    /\ fin = <<>>
    /\ out = <<>>
    /\ emitted = <<>>
    /\ line = <<>>
    /\ pos = 0
    /\ idx = None
    /\ comment \in FindInputs
    /\ create_state = InitialCreateState(NoText)
    /\ pc = "find"
    /\ run = 1
    /\ first_out = <<>>
    /\ found = NotFound
    /\ progress = NoProgress(0)
    /\ preimport = NoPreImport

\* end_pos, digits_end = find_conditional_end(comment)
FindCall ==
    /\ pc = "find"
    /\ found' = FindConditionalEnd(comment)
    /\ pc' = "found"
    /\ UNCHANGED <<cfg, input, fin, out, emitted, line, pos, idx, comment,
                   create_state, run, first_out, progress, preimport>>

NextFind == FindCall

SpecFind == InitFind /\ [][NextFind]_vars

(***************************************************************************)
(* Comments that span several lines, with nested comments.                 *)
(***************************************************************************)
\* The longest input with multi-line comments, in fragments.
MaxSplitTokens == 5

\* A block below the threshold, the start and the end of a plain comment, a
\* line end, plain text, a terminator and a marker without digits.
SplitTokens == {<<"/","*","!","5">>, SlashStar, StarSlash, Newline, <<"a">>, Semicolon, Marker}

InitSplit == Begin(Texts(SplitTokens, MaxSplitTokens), {DefaultCfg})

SpecSplit == InitSplit /\ [][Next]_vars

(***************************************************************************)
(* enhance_create_table on its own.                                        *)
(***************************************************************************)
\* The metadata row of the table t with a field replaced.
InfoWith(engine, row_format, table_collation) ==
    [engine |-> engine, row_format |-> row_format, table_collation |-> table_collation]

\* Arguments with the given table_meta and the default schema db.
CfgWith(table_meta) == [MetaCfg EXCEPT !.table_meta = table_meta]

\* The row of t has no row_format (NULL in the TSV).
NoRowFormatCfg == CfgWith(<<"d","b",".","t">> :> InfoWith(<<"I","n","n","o","D","B">>, NoText, <<"u","t","f","8","m","b","4","_","u","n","i","c","o","d","e","_","c","i">>))

\* The row of t has no engine.
NoEngineCfg == CfgWith(<<"d","b",".","t">> :> InfoWith(NoText, <<"D","Y","N","A","M","I","C">>, <<"u","t","f","8","m","b","4","_","u","n","i","c","o","d","e","_","c","i">>))

\* The row of t has no collation.
NoCollationCfg == CfgWith(<<"d","b",".","t">> :> InfoWith(<<"I","n","n","o","D","B">>, <<"D","Y","N","A","M","I","C">>, NoText))

\* There is no row for t, only one for another table.
OtherTableCfg == CfgWith(<<"d","b",".","u">> :> InfoWith(<<"I","n","n","o","D","B">>, <<"D","Y","N","A","M","I","C">>, <<"u","t","f","8","m","b","4","_","u","n","i","c","o","d","e","_","c","i">>))

\* The metadata with which a statement is augmented.
CompleteCfgs == {MetaCfg, NoRowFormatCfg}

\* The metadata with which it is not.
IncompleteCfgs == {NoEngineCfg, NoCollationCfg, OtherTableCfg}

CreateHead == <<"C","R","E","A","T","E"," ","T","A","B","L","E"," ">> \o <<Backtick>> \o <<"t">> \o <<Backtick>> \o <<" ","(","\n">>

DropViewLine ==
    <<"D","R","O","P"," ","V","I","E","W"," ","I","F"," ","E","X","I","S","T","S"," ">> \o <<Backtick>> \o <<"t">> \o <<Backtick>> \o <<";","\n">>

\* The options a closing line of the input may carry behind ") ENGINE=InnoDB".
OptionChoices ==
    {<<>>, <<" ","R","O","W","_","F","O","R","M","A","T","=","C","O","M","P","A","C","T">>} \X {<<>>, <<" ","D","E","F","A","U","L","T"," ","C","H","A","R","S","E","T","=","l","a","t","i","n","1">>}
        \X {<<>>, <<" ","C","O","L","L","A","T","E","=","l","a","t","i","n","1","_","b","i","n">>}

\* How a closing line may end: with ';', without, with a comment behind the
\* ';', with a blank before the ';'.
Terminators == {Semicolon, NoText, <<";"," ","-","-"," ","c">>, <<" ",";">>}

LineEndings == {Newline, NoText}

ClosingLines ==
    {<<")"," ","E","N","G","I","N","E","=","I","n","n","o","D","B">> \o o[1] \o o[2] \o o[3] \o t \o nl :
        o \in OptionChoices, t \in Terminators, nl \in LineEndings}

\* One CREATE TABLE statement for the table t.
Statements == {CreateHead \o c : c \in ClosingLines}

PlainStatement == CreateHead \o <<")"," ","E","N","G","I","N","E","=","I","n","n","o","D","B",";","\n">>

\* The most CREATE TABLE statements and DROP VIEW lines in one text.
MaxStatements == 2

\* What may follow the first statement of a text.
Followers == Texts({PlainStatement, DropViewLine}, MaxStatements - 1)

EnhanceInputs ==
    {p \o s \o f : p \in {NoText, DropViewLine}, s \in Statements, f \in Followers}

InitEnhance ==
    /\ cfg \in CompleteCfgs \cup IncompleteCfgs
    /\ input = <<>>
    /\ fin = <<>>
    /\ out = <<>>
    /\ emitted = <<>>
    /\ line \in EnhanceInputs
    /\ pos = 0
    /\ idx = None
    /\ comment = <<>>
    /\ create_state = InitialCreateState(cfg.default_schema)
    /\ pc = "enhance"
    /\ run = 1
    /\ first_out = <<>>
    /\ found = NotFound
    /\ progress = NoProgress(0)
    /\ preimport = NoPreImport

\* The value and the state left by enhance_create_table(text, state, ...).
Enhanced(e) ==
    /\ out' = e.text
    /\ create_state' = e.state

\* enhance_create_table(line, create_state, table_meta, default_schema)
EnhanceCall ==
    /\ pc = "enhance"
    /\ Enhanced(EnhanceCreateTable(line, create_state, cfg.table_meta, cfg.default_schema))
    /\ pc' = "enhanced"
    /\ UNCHANGED <<cfg, input, fin, emitted, line, pos, idx, comment, run, first_out,
                   found, progress, preimport>>

\* enhance_create_table called on the text it returned, with a new state.
EnhanceAgain ==
    /\ pc = "enhanced"
    /\ first_out' = out
    /\ Enhanced(EnhanceCreateTable(out, InitialCreateState(cfg.default_schema),
                                   cfg.table_meta, cfg.default_schema))
    /\ pc' = "again"
    /\ run' = 2
    /\ UNCHANGED <<cfg, input, fin, emitted, line, pos, idx, comment, found,
                   progress, preimport>>

NextEnhance ==
    \/ EnhanceCall
    \/ EnhanceAgain

SpecEnhance == InitEnhance /\ [][NextEnhance]_vars

(***************************************************************************)
(* replace_utc_time_zone on its own.                                       *)
(***************************************************************************)
\* The longest text, in fragments.
MaxTimeZoneTokens == 4

\* The start of the statement in two spellings, "=" without and with blanks,
\* the literal in single quotes, in double quotes and lower case, and with
\* quotes that do not match, a terminator, a line end and other text.
TimeZoneTokens ==
    {<<"S","E","T"," ","t","i","m","e","_","z","o","n","e">>, <<"s","e","t"," "," ","T","I","M","E","_","Z","O","N","E">>, Equals, <<" ","="," ">>, <<"'","U","T","C","'">>, <<"\"","u","t","c","\"">>, <<"'","U","T","C","\"">>,
     Semicolon, Newline, <<"a"," ">>}

InitTimeZone ==
    /\ cfg = DefaultCfg
    /\ input = <<>>
    /\ fin = <<>>
    /\ out = <<>>
    /\ emitted = <<>>
    /\ line \in Texts(TimeZoneTokens, MaxTimeZoneTokens)
    /\ pos = 0
    /\ idx = None
    /\ comment = <<>>
    /\ create_state = InitialCreateState(NoText)
    /\ pc = "rewrite"
    /\ run = 1
    /\ first_out = <<>>
    /\ found = NotFound
    /\ progress = NoProgress(0)
    /\ preimport = NoPreImport

\* out = replace_utc_time_zone(line)
TimeZoneCall ==
    /\ pc = "rewrite"
    /\ out' = ReplaceUtcTimeZone(line)
    /\ pc' = "rewritten"
    /\ UNCHANGED <<cfg, input, fin, emitted, line, pos, idx, comment, create_state,
                   run, first_out, found, progress, preimport>>

\* replace_utc_time_zone called on the text it returned.
TimeZoneAgain ==
    /\ pc = "rewritten"
    /\ first_out' = out
    /\ out' = ReplaceUtcTimeZone(out)
    /\ pc' = "again"
    /\ run' = 2
    /\ UNCHANGED <<cfg, input, fin, emitted, line, pos, idx, comment, create_state,
                   found, progress, preimport>>

NextTimeZone ==
    \/ TimeZoneCall
    \/ TimeZoneAgain

SpecTimeZone == InitTimeZone /\ [][NextTimeZone]_vars

(***************************************************************************)
(* Runs with and without no_drop.                                          *)
(***************************************************************************)
\* --no-drop
DropCfg == [DefaultCfg EXCEPT !.no_drop = TRUE]

\* The longest input with DROP statements, in fragments.
MaxDropTokens == 4

\* The start of a block below and of one above the threshold, a DROP
\* statement without and with its terminator, a block end, the terminator, a
\* line end and a marker without digits.
DropTokens ==
    {<<"/","*","!","5","0","0","0","1"," ">>, <<"/","*","!","8","0","0","0","1"," ">>, <<"D","R","O","P"," ","T","A","B","L","E"," ","t">>, <<"D","R","O","P"," ","T","A","B","L","E"," ","t",";">>, <<" ","*","/">>, Semicolon,
     Newline, Marker}

InitDrop == Begin(Texts(DropTokens, MaxDropTokens), {DefaultCfg, DropCfg})

SpecDrop == InitDrop /\ [][Next]_vars

(***************************************************************************)
(* Runs with and without ddl.                                              *)
(***************************************************************************)
\* --ddl
DdlCfg == [DefaultCfg EXCEPT !.ddl = TRUE]

\* The longest input with volatile DDL details, in fragments.
MaxDdlTokens == 4

\* The table option up to its value, a value, the footer line of a dump, the
\* start and the end of a versioned comment, a marker without digits, a line
\* end and a terminator.
DdlTokens ==
    {<<"A","U","T","O","_","I","N","C","R","E","M","E","N","T","=">>, <<"1","2">>, <<"-","-"," ","D","u","m","p"," ","c","o","m","p","l","e","t","e","d"," ","o","n"," ","2","0","2","0">>, <<"/","*","!","5">>, StarSlash, Marker,
     Newline, Semicolon}

InitDdl == Begin(Texts(DdlTokens, MaxDdlTokens), {DefaultCfg, DdlCfg})

SpecDdl == InitDdl /\ [][Next]_vars

(***************************************************************************)
(* Runs on files with bytes that are not valid UTF-8, with "\r\n" line     *)
(* ends and with long lines.                                               *)
(***************************************************************************)
\* The longest input of these runs, in fragments.
MaxProgressTokens == 4

\* The length of the long line, without its line end.
LongLineLen == 100

\* A line that is most of a file of at most MaxProgressTokens fragments.
LongLine == [i \in 1..LongLineLen |-> "a"] \o Newline

\* An invalid byte, the two kinds of line end, plain text, a long line, the
\* start and the end of a versioned comment and a marker without digits.
ProgressTokens ==
    {<<InvalidByte>>, <<"\r","\n">>, Newline, <<"a">>, LongLine, <<"/","*","!","5">>, StarSlash, Marker}

InitProgress == Begin(Texts(ProgressTokens, MaxProgressTokens), {DefaultCfg})

SpecProgress == InitProgress /\ [][Next]_vars

(***************************************************************************)
(* The tool run a second time on the same input file.                      *)
(***************************************************************************)
\* Fault model of the step below: the state of enhance_create_table outlives
\* the call.
RunAgainKeepingState ==
    /\ pc = "done"
    /\ run = 1
    /\ run' = 2
    /\ first_out' = out
    /\ fin' = TranslateNewlines(Decode(input))
    /\ out' = Preamble(cfg)
    /\ emitted' = <<>>
    /\ line' = <<>>
    /\ pos' = 0
    /\ idx' = None
    /\ comment' = <<>>
    /\ pc' = "read"
    /\ progress' = NoProgress(TotalSize(input))
    /\ UNCHANGED <<cfg, input, found, create_state, preimport>>

\* process_dump_stream called again with the same in_path and the same
\* arguments: every local is set anew, the state at its first fin.readline().
RunAgain ==
    /\ pc = "done"
    /\ run = 1
    /\ run' = 2
    /\ first_out' = out
    /\ fin' = TranslateNewlines(Decode(input))
    /\ out' = Preamble(cfg)
    /\ emitted' = <<>>
    /\ line' = <<>>
    /\ pos' = 0
    /\ idx' = None
    /\ comment' = <<>>
    /\ create_state' = InitialCreateState(cfg.default_schema)
    /\ pc' = "read"
    /\ progress' = NoProgress(TotalSize(input))
    /\ UNCHANGED <<cfg, input, found, preimport>>

NextAgain ==
    \/ Next
    \/ RunAgain

\* Metadata, a database name, --no-drop and --ddl together.
AllOptionsCfg == [MetaCfg EXCEPT !.db_name = <<"d","b">>, !.no_drop = TRUE, !.ddl = TRUE]

\* The longest input of the two runs, in fragments.
MaxAgainTokens == 4

InitAgain == Begin(Texts(MetaTokens, MaxAgainTokens), {MetaCfg, AllOptionsCfg})

SpecAgain == InitAgain /\ [][NextAgain]_vars

(***************************************************************************)
(* pre-import.py: main.                                                    *)
(*   preimport.args      dry_run, allow_charset_change, output, report     *)
(*                       (NoText: no --report), chunk_size                 *)
(*   preimport.supported the collations of the target, as loaded, and      *)
(*                       after the scan with their aliases                 *)
(*   preimport.files     the content of the files by path; NoFile: absent  *)
(*   preimport.map_file  the mapping file: exists, and its JSON object     *)
(*                       (Null: a JSON null)                               *)
(*   preimport.referenced, mapping, mapping_changed, built                 *)
(*                       the locals of main() after build_replacements     *)
(*   preimport.status    what main() returned                              *)
(*   pc                  "main": at the entry of main(); "scanned": after  *)
(*                       scan_dump_for_collations; "built": after          *)
(*                       build_replacements; "exit": returned              *)
(***************************************************************************)
\* args.input
DumpPath == "dump.sql"

OutPath == "out.sql"

ReportPath == "report.json"

NoFile == <<"[no file]">>

Null == <<"[null]">>

\* The report: that it is written is modelled, its JSON text is not.
ReportFile == <<"[report]">>

\* load_mapping(path): no file gives no entries, and a null value is "".
LoadMapping(map_file) ==
    IF ~map_file.exists THEN <<>>
    ELSE [k \in DOMAIN map_file.data |->
              IF map_file.data[k] = Null THEN NoText ELSE map_file.data[k]]

\* supported, expanded with the utf8/utf8mb3 aliases.
SupportedExpanded(supported) == UNION {CollationAliases(c) : c \in supported}

\* for c in sorted(unsupported): if c not in mapping: mapping[c] = ""
WithKeys(mapping, unsupported) ==
    [k \in DOMAIN mapping \cup unsupported |->
        IF k \in DOMAIN mapping THEN mapping[k] ELSE NoText]

\* save_mapping(args.map_file, mapping)
SaveMapping(mapping) == [exists |-> TRUE, data |-> mapping]

\* main() up to the scan of the dump: the mapping and the target's collations
\* are loaded, the dump is scanned.
MainScan ==
    /\ pc = "main"
    /\ preimport' =
           [preimport EXCEPT
               !.mapping = LoadMapping(preimport.map_file),
               !.supported = SupportedExpanded(preimport.supported),
               !.referenced = ScanDumpForCollations(preimport.files[DumpPath],
                                                    preimport.args.chunk_size)]
    /\ pc' = "scanned"
    /\ UNCHANGED <<cfg, input, fin, out, emitted, line, pos, idx, comment,
                   create_state, run, first_out, found, progress>>

\* The locals of main() after build_replacements.
Locals0(p) ==
    [p EXCEPT
        !.unsupported = p.referenced \ p.supported,
        !.mapping = WithKeys(p.mapping, p.referenced \ p.supported),
        !.mapping_changed = (p.referenced \ p.supported) \ DOMAIN p.mapping # {},
        !.built =
            BuildReplacements(p.referenced, p.supported,
                              WithKeys(p.mapping, p.referenced \ p.supported),
                              p.args.allow_charset_change)]

\* main() from the scan up to build_replacements: the unsupported collations
\* become keys of the mapping.
MainBuild ==
    /\ pc = "scanned"
    /\ preimport' = Locals0(preimport)
    /\ pc' = "built"
    /\ UNCHANGED <<cfg, input, fin, out, emitted, line, pos, idx, comment,
                   create_state, run, first_out, found, progress>>

\* if mapping_changed: save_mapping(...)
Saved(p) == IF p.mapping_changed THEN [p EXCEPT !.map_file = SaveMapping(p.mapping)] ELSE p

\* if args.report: the report is written.
Reported(p) ==
    IF p.args.report = "" THEN p ELSE [p EXCEPT !.files[p.args.report] = ReportFile]

\* main() returns status.
Returns(p, status) ==
    /\ preimport' = [p EXCEPT !.status = status]
    /\ pc' = "exit"
    /\ UNCHANGED <<cfg, input, fin, out, emitted, line, pos, idx, comment,
                   create_state, run, first_out, found, progress>>

\* if invalid_targets: return 2
MainInvalid ==
    /\ pc = "built"
    /\ DOMAIN preimport.built.invalid_targets # {}
    /\ Returns(Saved(preimport), 2)

\* if missing: the mapping is saved, the report is written, return 2
MainMissing ==
    /\ pc = "built"
    /\ DOMAIN preimport.built.invalid_targets = {}
    /\ preimport.built.missing # {}
    /\ Returns(Reported([preimport EXCEPT !.map_file = SaveMapping(preimport.mapping)]), 2)

\* if args.dry_run: return 0
MainDryRun ==
    /\ pc = "built"
    /\ DOMAIN preimport.built.invalid_targets = {}
    /\ preimport.built.missing = {}
    /\ preimport.args.dry_run
    /\ Returns(Saved(preimport), 0)

\* apply_replacements_stream(args.input, args.output, replacements): opening
\* the output for writing empties it before the first chunk is read.
Applied(p) ==
    [p EXCEPT !.files[p.args.output] =
        ApplyReplacementsStream([p.files EXCEPT ![p.args.output] = <<>>][DumpPath],
                                p.built.replacements, p.args.chunk_size)]

\* apply_replacements_stream, the report, return 0
MainApply ==
    /\ pc = "built"
    /\ DOMAIN preimport.built.invalid_targets = {}
    /\ preimport.built.missing = {}
    /\ ~preimport.args.dry_run
    /\ Returns(Reported(Applied(Saved(preimport))), 0)

NextPreImport ==
    \/ MainScan
    \/ MainBuild
    \/ MainInvalid
    \/ MainMissing
    \/ MainDryRun
    \/ MainApply

\* chunk_size of the model, with which its dumps are scaled down: 1024 * 1024
\* in the source.
ChunkSize == 48

\* The longest dump, in fragments.
MaxPreImportTokens == 3

NameMysql8 == <<"u","t","f","8","m","b","4","_","0","9","0","0","_","a","i","_","c","i">>

\* A reference of each kind, and text that holds none.
PreImportTokens ==
    {<<" ","C","O","L","L","A","T","E","=">> \o NameMysql8, <<" ","C","O","L","L","A","T","E"," ","l","a","t","i","n","1","_","b","i","n">>, <<"S","E","T"," ","c","o","l","l","a","t","i","o","n","_","c","o","n","n","e","c","t","i","o","n"," ","="," ","'","u","t","f","8","_","b","i","n","'",";">>,
     <<"-","-"," ","3","0"," ","c","h","a","r","a","c","t","e","r","s"," ","o","f"," ","p","a","d","d","i","n","g"," ","-","-","\n">>}

\* What the target has.
SupportedSets == {{<<"u","t","f","8","m","b","4","_","b","i","n">>}, {<<"u","t","f","8","m","b","3","_","b","i","n">>, <<"u","t","f","8","m","b","4","_","b","i","n">>, <<"l","a","t","i","n","1","_","b","i","n">>}}

NoMapFile == [exists |-> FALSE, data |-> <<>>]

\* No file; a replacement in the charset; one more, into another charset; an
\* empty value and a null; a replacement that the target has not, and one
\* that it has under its alias, with spaces around it.
MapFiles ==
    {NoMapFile,
     SaveMapping(NameMysql8 :> <<"u","t","f","8","m","b","4","_","b","i","n">>),
     SaveMapping(NameMysql8 :> <<"u","t","f","8","m","b","4","_","b","i","n">> @@ <<"l","a","t","i","n","1","_","b","i","n">> :> <<"u","t","f","8","m","b","4","_","b","i","n">>),
     SaveMapping(NameMysql8 :> <<" ">> @@ <<"l","a","t","i","n","1","_","b","i","n">> :> Null),
     SaveMapping(NameMysql8 :> <<"u","t","f","8","m","b","4","_","g","e","n","e","r","a","l","_","c","i">> @@ <<"u","t","f","8","_","b","i","n">> :> <<" ","u","t","f","8","m","b","3","_","b","i","n"," ">>)}

\* The output and the report: apart from the dump, and each at the path of
\* the dump.
PathChoices ==
    {<<OutPath, "">>, <<OutPath, ReportPath>>, <<DumpPath, "">>, <<OutPath, DumpPath>>}

PreImportArgs ==
    {[dry_run |-> d, allow_charset_change |-> a, output |-> p[1], report |-> p[2],
      chunk_size |-> ChunkSize] : d \in BOOLEAN, a \in BOOLEAN, p \in PathChoices}

InitPreImport ==
    /\ cfg = DefaultCfg
    /\ input \in Texts(PreImportTokens, MaxPreImportTokens)
    /\ fin = <<>>
    /\ out = <<>>
    /\ emitted = <<>>
    /\ line = <<>>
    /\ pos = 0
    /\ idx = None
    /\ comment = <<>>
    /\ create_state = InitialCreateState(NoText)
    /\ pc = "main"
    /\ run = 1
    /\ first_out = <<>>
    /\ found = NotFound
    /\ progress = NoProgress(0)
    /\ \E a \in PreImportArgs, s \in SupportedSets, m \in MapFiles :
           preimport =
               [args |-> a, supported |-> s, map_file |-> m,
                files |-> (DumpPath :> input @@ OutPath :> NoFile @@ ReportPath :> NoFile),
                referenced |-> {}, unsupported |-> {}, mapping |-> <<>>,
                mapping_changed |-> FALSE,
                built |-> BuildReplacements({}, {}, <<>>, FALSE),
                status |-> None]

SpecPreImport == InitPreImport /\ [][NextPreImport]_vars

(***************************************************************************)
(* build_replacements on its own.                                          *)
(***************************************************************************)
\* The collations that a dump may reference.
BuildNames == {NameMysql8, <<"l","a","t","i","n","1","_","b","i","n">>, <<"u","t","f","8","_","b","i","n">>, <<"u","t","f","8","m","b","3","_","b","i","n">>}

\* The supported sets, as given: with and without the aliases, and none.
BuildSupported ==
    {{<<"u","t","f","8","m","b","4","_","b","i","n">>}, {<<"u","t","f","8","m","b","3","_","b","i","n">>, <<"u","t","f","8","m","b","4","_","b","i","n">>},
     {<<"u","t","f","8","_","g","e","n","e","r","a","l","_","c","i">>, <<"u","t","f","8","m","b","4","_","b","i","n">>, <<"l","a","t","i","n","1","_","b","i","n">>}, {}}

\* The keys of a mapping.
BuildKeys == {NameMysql8, <<"l","a","t","i","n","1","_","b","i","n">>, <<"u","t","f","8","_","b","i","n">>}

\* The values of a mapping: empty, blank, a collation of utf8mb4, one with
\* blanks around it, an alias name, and a collation that no target set has.
BuildValues ==
    {NoText, <<" ">>, <<"u","t","f","8","m","b","4","_","b","i","n">>, <<" ","u","t","f","8","m","b","4","_","b","i","n"," ">>, <<"u","t","f","8","m","b","3","_","g","e","n","e","r","a","l","_","c","i">>, <<"l","a","t","i","n","1","_","g","e","n","e","r","a","l","_","c","i">>}

\* The largest number of entries of a mapping.
MaxBuildEntries == 3

BuildMappings ==
    UNION {[ks -> BuildValues] :
              ks \in {k \in SUBSET BuildKeys : Cardinality(k) <= MaxBuildEntries}}

InitBuild ==
    /\ cfg = DefaultCfg
    /\ input = <<>>
    /\ fin = <<>>
    /\ out = <<>>
    /\ emitted = <<>>
    /\ line = <<>>
    /\ pos = 0
    /\ idx = None
    /\ comment = <<>>
    /\ create_state = InitialCreateState(NoText)
    /\ pc = "build"
    /\ run = 1
    /\ first_out = <<>>
    /\ found = NotFound
    /\ progress = NoProgress(0)
    /\ \E r \in SUBSET BuildNames, s \in BuildSupported, m \in BuildMappings,
          a \in BOOLEAN :
           preimport =
               [referenced |-> r, supported |-> s, mapping |-> m,
                allow_charset_change |-> a,
                built |-> BuildReplacements({}, {}, <<>>, FALSE)]

\* replacements, missing, invalid_targets = build_replacements(...)
BuildCall ==
    /\ pc = "build"
    /\ preimport' =
           [preimport EXCEPT !.built =
               BuildReplacements(preimport.referenced, preimport.supported,
                                 preimport.mapping, preimport.allow_charset_change)]
    /\ pc' = "returned"
    /\ UNCHANGED <<cfg, input, fin, out, emitted, line, pos, idx, comment,
                   create_state, run, first_out, found, progress>>

NextBuild == BuildCall

SpecBuild == InitBuild /\ [][NextBuild]_vars

(***************************************************************************)
(* enhance_create_table of the standalone script on its own: write_out     *)
(* hands it the text in pieces, here the whole text or one line at a time. *)
(***************************************************************************)
\* The options a closing line of the input may carry behind ") ENGINE=InnoDB",
\* in the order mysqldump writes them.
OptAutoIncrement == <<" ","A","U","T","O","_","I","N","C","R","E","M","E","N","T","=","5">>
OptRowFormat == <<" ","R","O","W","_","F","O","R","M","A","T","=","C","O","M","P","A","C","T">>
OptComment == <<" ","C","O","M","M","E","N","T","=","'","c","'">>

StandaloneOptions ==
    {<<>>, OptAutoIncrement} \X {<<>>, OptRowFormat} \X {<<>>, OptComment}

StandaloneClosingLines ==
    {<<")"," ","E","N","G","I","N","E","=","I","n","n","o","D","B">> \o o[1] \o o[2] \o o[3] \o <<";">> \o nl :
        o \in StandaloneOptions, nl \in {Newline, <<"\r","\n">>, NoText}}

UseLine == <<"U","S","E"," ">> \o <<Backtick>> \o <<"d","b">> \o <<Backtick>> \o <<";","\n">>

StandaloneInputs ==
    {p \o CreateHead \o <<" "," ","a"," ","i","n","t","\n">> \o c :
        p \in {NoText, UseLine, <<"a","\n">>}, c \in StandaloneClosingLines}

\* table_meta as load_table_metadata of the standalone script returns it.
StandaloneCfgs == {DefaultCfg, MetaCfg, NoRowFormatCfg, OtherTableCfg}

InitStandalone ==
    /\ cfg \in StandaloneCfgs
    /\ input \in StandaloneInputs
    /\ fin = <<>>
    /\ out = <<>>
    /\ emitted = <<>>
    /\ line = input
    /\ pos = 0
    /\ idx = None
    /\ comment = <<>>
    /\ create_state = [StandaloneInitialState EXCEPT !.current_schema = cfg.default_schema]
    /\ pc = "standalone"
    /\ run = 1
    /\ first_out = <<>>
    /\ found = NotFound
    /\ progress = NoProgress(0)
    /\ preimport = NoPreImport

\* fout.write(enhance_create_table(chunk, create_state, ...)) for the first n
\* characters of what is left of the text.
StandaloneWrite(n) ==
    /\ n > 0
    /\ out' = out \o StandaloneEnhanceCreateTable(Slice(line, 0, n), create_state,
                         cfg.table_meta, cfg.default_schema).text
    /\ create_state' = StandaloneEnhanceCreateTable(Slice(line, 0, n), create_state,
                           cfg.table_meta, cfg.default_schema).state
    /\ line' = SliceFrom(line, n)
    /\ pc' = IF n = Len(line) THEN "written" ELSE "standalone"

\* write_out(chunk) of the standalone script.
StandaloneCall ==
    /\ pc = "standalone"
    /\ \E n \in {Len(line), Len(FirstLine(line))} : StandaloneWrite(n)
    /\ UNCHANGED <<cfg, input, fin, emitted, pos, idx, comment, run, first_out,
                   found, progress, preimport>>

NextStandalone == StandaloneCall

SpecStandalone == InitStandalone /\ [][NextStandalone]_vars

(***************************************************************************)
(* Runs whose input has complete statements after a CREATE TABLE line.     *)
(***************************************************************************)
\* A line that is a whole statement.
StatementLine == <<"a",";","\n">>

\* The longest input of such a run, in fragments.
MaxMemoryTokens == 4

MemoryTokens == MetaTokens \cup {StatementLine}

InitMemory == Begin(Texts(MemoryTokens, MaxMemoryTokens), {DefaultCfg, MetaCfg})

SpecMemory == InitMemory /\ [][Next]_vars

(***************************************************************************)
(* find_conditional_end step by step: found holds its locals k, depth,     *)
(* end_pos and digits_end.                                                 *)
(***************************************************************************)
\* two = comment[k:k + 2]
Two == Slice(comment, found.k, found.k + 2)

\* Fault model of the operator below: every "*/" ends the block.
ClosesAlways(depth) == TRUE

\* if depth == 0: the "*/" at k ends the block.
Closes(depth) == depth = 0

InitScan ==
    /\ cfg = DefaultCfg
    /\ input = <<>>
    /\ fin = <<>>
    /\ out = <<>>
    /\ emitted = <<>>
    /\ line = <<>>
    /\ pos = 0
    /\ idx = None
    /\ comment \in FindInputs
    /\ create_state = InitialCreateState(NoText)
    /\ pc = "digits"
    /\ run = 1
    /\ first_out = <<>>
    /\ found = [k |-> 3, depth |-> 0, end_pos |-> None, digits_end |-> None]
    /\ progress = NoProgress(0)
    /\ preimport = NoPreImport

ScanUnchanged ==
    UNCHANGED <<cfg, input, fin, out, emitted, line, pos, idx, comment,
                create_state, run, first_out, progress, preimport>>

\* The digits are read; without digits the function returns (None, None).
ScanDigits ==
    /\ pc = "digits"
    /\ IF DigitsEnd(comment, 3) = 3
       THEN /\ found' = found
            /\ pc' = "returned"
       ELSE /\ found' = [found EXCEPT !.k = DigitsEnd(comment, 3),
                                      !.digits_end = DigitsEnd(comment, 3)]
            /\ pc' = "loop"
    /\ ScanUnchanged

\* two == "/*": a nested block comment begins.
ScanOpen ==
    /\ pc = "loop"
    /\ found.k < Len(comment) - 1
    /\ Two = SlashStar
    /\ found' = [found EXCEPT !.depth = @ + 1, !.k = @ + 2]
    /\ pc' = "loop"
    /\ ScanUnchanged

\* two == "*/" at depth 0: end_pos = k, break.
ScanClose ==
    /\ pc = "loop"
    /\ found.k < Len(comment) - 1
    /\ Two = StarSlash
    /\ Closes(found.depth)
    /\ found' = [found EXCEPT !.end_pos = found.k]
    /\ pc' = "returned"
    /\ ScanUnchanged

\* two == "*/" inside a nested block comment.
ScanNestedClose ==
    /\ pc = "loop"
    /\ found.k < Len(comment) - 1
    /\ Two = StarSlash
    /\ ~Closes(found.depth)
    /\ found' = [found EXCEPT !.depth = @ - 1, !.k = @ + 2]
    /\ pc' = "loop"
    /\ ScanUnchanged

\* k += 1
ScanPlain ==
    /\ pc = "loop"
    /\ found.k < Len(comment) - 1
    /\ Two # SlashStar
    /\ Two # StarSlash
    /\ found' = [found EXCEPT !.k = @ + 1]
    /\ pc' = "loop"
    /\ ScanUnchanged

\* The loop condition k < n - 1 fails: end_pos stays None.
ScanExhausted ==
    /\ pc = "loop"
    /\ ~(found.k < Len(comment) - 1)
    /\ found' = found
    /\ pc' = "returned"
    /\ ScanUnchanged

NextScan ==
    \/ ScanDigits
    \/ ScanOpen
    \/ ScanClose
    \/ ScanNestedClose
    \/ ScanPlain
    \/ ScanExhausted

SpecScan == InitScan /\ [][NextScan]_vars

(***************************************************************************)
(* enhance_create_table called piece by piece, as write_out calls it: each *)
(* call gets the next line of the text or all that is left of it.          *)
(***************************************************************************)
\* A line that DROP_VIEW_RE and ENGINE_LINE_RE both match.
DropViewEngineLine ==
    <<"D","R","O","P"," ","V","I","E","W"," ","I","F"," ","E","X","I","S","T","S"," ">> \o <<Backtick>> \o <<"t">> \o <<Backtick>> \o <<";"," ",")"," ","E","N","G","I","N","E","=","x","\n">>

PiecesInputs ==
    EnhanceInputs \cup {CreateHead \o DropViewEngineLine \o <<")"," ","E","N","G","I","N","E","=","I","n","n","o","D","B",";","\n">>}

InitPieces ==
    /\ cfg \in CompleteCfgs \cup IncompleteCfgs
    /\ input \in PiecesInputs
    /\ fin = <<>>
    /\ out = <<>>
    /\ emitted = <<>>
    /\ line = input
    /\ pos = 0
    /\ idx = None
    /\ comment = <<>>
    /\ create_state = InitialCreateState(cfg.default_schema)
    /\ pc = "pieces"
    /\ run = 1
    /\ first_out = <<>>
    /\ found = NotFound
    /\ progress = NoProgress(0)
    /\ preimport = NoPreImport

\* enhance_create_table called for the first n characters of what is left.
EnhancePieceOf(n) ==
    /\ n > 0
    /\ out' = out \o EnhanceCreateTable(Slice(line, 0, n), create_state,
                                        cfg.table_meta, cfg.default_schema).text
    /\ create_state' = EnhanceCreateTable(Slice(line, 0, n), create_state,
                                          cfg.table_meta, cfg.default_schema).state
    /\ line' = SliceFrom(line, n)
    /\ pc' = IF n = Len(line) THEN "fed" ELSE "pieces"

\* enhanced = enhance_create_table(chunk, create_state, table_meta, default_schema)
EnhancePiece ==
    /\ pc = "pieces"
    /\ \E n \in {Len(line), Len(FirstLine(line))} : EnhancePieceOf(n)
    /\ UNCHANGED <<cfg, input, fin, emitted, pos, idx, comment, run, first_out,
                   found, progress, preimport>>

NextPieces == EnhancePiece

SpecPieces == InitPieces /\ [][NextPieces]_vars

(***************************************************************************)
(* The metadata lookup of enhance_create_table: the table t is in the      *)
(* metadata of one schema or of two, with different collations.            *)
(***************************************************************************)
InfoOfDb == InfoWith(<<"I","n","n","o","D","B">>, NoText, <<"u","t","f","8","m","b","4","_","u","n","i","c","o","d","e","_","c","i">>)

InfoOfOther == InfoWith(<<"I","n","n","o","D","B">>, NoText, <<"l","a","t","i","n","1","_","b","i","n">>)

LookupMetas ==
    {<<"d","b",".","t">> :> InfoOfDb,
     <<"o","t","h","e","r",".","t">> :> InfoOfOther,
     (<<"d","b",".","t">> :> InfoOfDb) @@ (<<"o","t","h","e","r",".","t">> :> InfoOfOther),
     (<<"d","b",".","t">> :> InfoOfDb) @@ (<<"d","b",".","u">> :> InfoOfOther)}

LookupCfgs ==
    {[DefaultCfg EXCEPT !.table_meta = tm, !.default_schema = ds] :
        tm \in LookupMetas, ds \in {NoText, <<"d","b">>, <<"o","t","h","e","r">>}}

UseOf(name) == <<"U","S","E"," ">> \o <<Backtick>> \o name \o <<Backtick>> \o <<";","\n">>

\* The most USE statements and plain lines before the CREATE TABLE statement.
MaxLookupLines == 2

LookupLines == {UseOf(<<"d","b">>), UseOf(<<"o","t","h","e","r">>), UseOf(<<"n","o","n","e">>), <<"U","S","E"," ","d","b",";","\n">>, <<"a","\n">>}

LookupInputs == {p \o PlainStatement : p \in Texts(LookupLines, MaxLookupLines)}

InitLookup ==
    /\ cfg \in LookupCfgs
    /\ input \in LookupInputs
    /\ fin = <<>>
    /\ out = <<>>
    /\ emitted = <<>>
    /\ line = input
    /\ pos = 0
    /\ idx = None
    /\ comment = <<>>
    /\ create_state = InitialCreateState(cfg.default_schema)
    /\ pc = "pieces"
    /\ run = 1
    /\ first_out = <<>>
    /\ found = NotFound
    /\ progress = NoProgress(0)
    /\ preimport = NoPreImport

SpecLookup == InitLookup /\ [][NextPieces]_vars

(***************************************************************************)
(* Runs with blank lines after a block that ends with "*/;".               *)
(***************************************************************************)
\* The longest input of such a run, in fragments.
MaxBlankTokens == 5

BlankTokens == {<<"/","*","!","5">>, <<"a","\n">>, <<"*","/",";">>, Newline, Marker, <<"b">>}

InitBlank == Begin(Texts(BlankTokens, MaxBlankTokens), {DefaultCfg})

SpecBlank == InitBlank /\ [][Next]_vars

(***************************************************************************)
(* The run as a sequential program: a step that can be taken is taken.     *)
(***************************************************************************)
\* The longest input of such a run, in fragments.
MaxFairTokens == 3

\* The first line of a block below the threshold, a line that ends a block, a
\* marker without digits, a block end, a plain line.
FairTokens == {<<"/","*","!","5","\n">>, <<"*","/","a",";","\n">>, Marker, StarSlash, <<"b","\n">>}

InitFair == Begin(Texts(FairTokens, MaxFairTokens), {DefaultCfg})

SpecFair == InitFair /\ [][Next]_vars /\ WF_vars(Next)

(***************************************************************************)
(* write_out called line by line for a text of whole lines: CREATE TABLE   *)
(* statements, DROP VIEW lines and plain lines.                            *)
(***************************************************************************)
\* The most lines in one text.
MaxOrderLines == 4

OneLineCreate == <<"C","R","E","A","T","E"," ","T","A","B","L","E"," ","a"," ","(","i","d"," ","i","n","t",")",";","\n">>

OrderLines ==
    {CreateHead, <<")"," ","E","N","G","I","N","E","=","I","n","n","o","D","B",";","\n">>, DropViewLine, OneLineCreate, <<"x","\n">>, <<"y","\n">>}

InitOrder ==
    /\ cfg \in {MetaCfg, OtherTableCfg}
    /\ input \in Texts(OrderLines, MaxOrderLines)
    /\ fin = <<>>
    /\ out = <<>>
    /\ emitted = <<>>
    /\ line = input
    /\ pos = 0
    /\ idx = None
    /\ comment = <<>>
    /\ create_state = InitialCreateState(cfg.default_schema)
    /\ pc = "pieces"
    /\ run = 1
    /\ first_out = <<>>
    /\ found = NotFound
    /\ progress = NoProgress(0)
    /\ preimport = NoPreImport

\* write_out(chunk) for the next line of the text.
WriteLine ==
    /\ pc = "pieces"
    /\ Len(line) > 0
    /\ Write(<<FirstLine(line)>>)
    /\ line' = SliceFrom(line, Len(FirstLine(line)))
    /\ pc' = IF Len(FirstLine(line)) = Len(line) THEN "fed" ELSE "pieces"
    /\ UNCHANGED <<cfg, input, fin, pos, idx, comment, run, first_out, found,
                   progress, preimport>>

NextOrder == WriteLine

SpecOrder == InitOrder /\ [][NextOrder]_vars

(***************************************************************************)
(* Runs with no_drop over statements that begin with a word other than     *)
(* DROP and have the text "DROP b" further in.                             *)
(***************************************************************************)
\* The longest input, in fragments.
MaxKeepTokens == 4

\* The first word of a statement, text that begins with DROP, a marker without
\* digits, the start and the end of a block that is kept, the terminator and a
\* line end.
KeepTokens == {<<"a"," ">>, <<"D","R","O","P"," ","b">>, Marker, <<"/","*","!","8","0","0","0","1"," ">>, <<" ","*","/">>, Semicolon, Newline}

InitKeep == Begin(Texts(KeepTokens, MaxKeepTokens), {DropCfg})

SpecKeep == InitKeep /\ [][Next]_vars

(***************************************************************************)
(* scan_dump_for_collations and apply_replacements_stream on their own,    *)
(* called with chunk sizes below and above the length of the dump.         *)
(***************************************************************************)
\* chunk_size: int = 1024 * 1024
DefaultChunkSize == 1048576

\* The smallest and the largest of the small chunk sizes.
MinChunkSize == 15

MaxChunkSize == 19

ChunkSizes == MinChunkSize..MaxChunkSize \cup {DefaultChunkSize}

\* The longest dump, in fragments.
MaxChunkTokens == 3

\* A reference of each kind, a character and a line end.
ChunkTokens ==
    {<<"C","O","L","L","A","T","E","=","u","t","f","8","_","b","i","n">>, <<"C","O","L","L","A","T","E"," ","l","a","t","i","n","1","_","b","i","n">>, <<"S","E","T"," ","c","o","l","l","a","t","i","o","n","_","c","o","n","n","e","c","t","i","o","n","=","u","t","f","8","_","b","i","n",";">>,
     <<"x">>, Newline}

ChunkReplacements ==
    {<<"u","t","f","8","_","b","i","n">> :> <<"u","t","f","8","m","b","4","_","b","i","n">>,
     (<<"u","t","f","8","_","b","i","n">> :> <<"u","t","f","8","m","b","4","_","b","i","n">>) @@ (<<"l","a","t","i","n","1","_","b","i","n">> :> <<"u","t","f","8","m","b","4","_","b","i","n">>)}

InitChunks ==
    /\ cfg = DefaultCfg
    /\ input \in Texts(ChunkTokens, MaxChunkTokens)
    /\ fin = <<>>
    /\ out = <<>>
    /\ emitted = <<>>
    /\ line = <<>>
    /\ pos = 0
    /\ idx = None
    /\ comment = <<>>
    /\ create_state = InitialCreateState(NoText)
    /\ pc = "scan"
    /\ run = 1
    /\ first_out = <<>>
    /\ found = NotFound
    /\ progress = NoProgress(0)
    /\ \E n \in ChunkSizes, r \in ChunkReplacements :
           preimport = [chunk_size |-> n, replacements |-> r, referenced |-> {}]

\* referenced = scan_dump_for_collations(path, chunk_size)
ScanCall ==
    /\ pc = "scan"
    /\ preimport' =
           [preimport EXCEPT !.referenced =
               ScanDumpForCollations(input, preimport.chunk_size)]
    /\ pc' = "apply"
    /\ UNCHANGED <<cfg, input, fin, out, emitted, line, pos, idx, comment,
                   create_state, run, first_out, found, progress>>

\* apply_replacements_stream(input_path, output_path, replacements, chunk_size)
ApplyCall ==
    /\ pc = "apply"
    /\ out' = ApplyReplacementsStream(input, preimport.replacements,
                                      preimport.chunk_size)
    /\ pc' = "applied"
    /\ UNCHANGED <<cfg, input, fin, emitted, line, pos, idx, comment,
                   create_state, run, first_out, found, progress, preimport>>

NextChunks == ScanCall \/ ApplyCall

SpecChunks == InitChunks /\ [][NextChunks]_vars

(***************************************************************************)
(* Properties.  At "collect" with the comment closed, the names below are  *)
(* the values the source computes from it; a step from "collect" to "scan" *)
(* is the handling of a closed comment.                                    *)
(***************************************************************************)
EndPos == FindConditionalEnd(comment).end_pos

DigitsEndPos == FindConditionalEnd(comment).digits_end

\* line[pos:idx], the text before the comment
Before == Slice(line, pos, idx)

\* The block from its "/*!" through its matching "*/"
Block == Slice(comment, 0, EndPos + 2)

Inner == Slice(comment, DigitsEndPos, EndPos)

After == SliceFrom(comment, EndPos + 2)

Version == ParseInt(Slice(comment, 3, DigitsEndPos))

Closing == pc = "collect" /\ pc' = "scan"

Unwrapping == Closing /\ Version < cfg.version_threshold

\* The inner content with one ';' put right after its last non-whitespace
\* character, its trailing whitespace kept.
Terminated(inner) == Rstrip(inner) \o Semicolon \o TrailingWs(inner)

C2_InnerWrittenOnce ==
    [][Unwrapping =>
          \/ emitted' = emitted \o Before \o Inner
          \/ /\ StartsWith(After, Semicolon)
             /\ emitted' = emitted \o Before \o Terminated(Inner)]_vars

\* Every line of the text starts with "-- ".
OnlyLineComments(text) ==
    /\ StartsWith(text, <<"-","-"," ">>)
    /\ \A i \in 0..(Len(text) - 2) :
           At(text, i) = "\n" => StartsWithAt(text, <<"-","-"," ">>, i + 1)

\* C4: a dump that consists of "-- " line comments only is written unchanged
\* after the header, whatever the comments contain.
C4_LineCommentsUnchanged ==
    (pc = "done" /\ OnlyLineComments(input)) => out = Preamble(cfg) \o input

\* The next "/*!" of the line at or after pos.
NextMarker == Find(line, Marker, pos)

\* C5: at a "/*!" that no digit follows, the text up to and including the marker
\* is written, the output ends with the marker unchanged, no comment is begun,
\* nothing is read, and the scan goes on in the same line right behind the
\* marker; at a "/*!" that a digit follows (also one behind such a marker) the
\* comment is begun there.
C5_LiteralMarkerIsText ==
    [][(pc = "scan" /\ NextMarker # None) =>
          IF DigitsEnd(line, NextMarker + 3) = NextMarker + 3
          THEN /\ emitted' = emitted \o Slice(line, pos, NextMarker + 3)
               /\ EndsWith(out', Marker)
               /\ pc' = "scan"
               /\ line' = line
               /\ pos' = NextMarker + 3
               /\ comment' = comment
               /\ fin' = fin
          ELSE /\ pc' = "collect"
               /\ comment' = SliceFrom(line, NextMarker)
               /\ out' = out]_vars

\* C5, reached: a marker without digits was written, and a versioned comment
\* that starts behind it on the same line has been begun.
C5_Witness ==
    /\ pc = "collect"
    /\ pos >= 3
    /\ Slice(line, pos - 3, pos) = Marker
    /\ idx >= pos
    /\ EndsWith(out, Marker)

\* C6: when the input ends inside a versioned comment, the text before the
\* comment and then the whole accumulated comment are written as they are.
C6_UnterminatedCommentWritten ==
    [][(pc = "collect" /\ pc' = "done") => out' = out \o Before \o comment]_vars

\* C7: when process_dump_stream has returned, enhance_create_table holds no
\* text back.
C7_NothingLeftBuffered == (pc = "done") => create_state.buffer = NoText

\* C8: when a block below the threshold is closed, the text after it begins
\* with ';' and the inner content does not end with ';', what is written for
\* the block is the inner content with that one ';' attached, and the scan goes
\* on in the text after the ';'.
C8_SemicolonMovedOntoInner ==
    [][(Unwrapping /\ StartsWith(After, Semicolon)
                   /\ ~EndsWith(Rstrip(Inner), Semicolon)) =>
          /\ emitted' = emitted \o Before \o Terminated(Inner)
          /\ line' = CollapseBlankLine(Inner, SliceFrom(After, 1))]_vars

\* C9: when a block below the threshold is closed, the text after it begins
\* with ';' and the inner content already ends with ';', the inner content is
\* written once and one ';' is dropped from the text after the block.
C9_TerminatorNotDuplicated ==
    [][(Unwrapping /\ StartsWith(After, Semicolon)
                   /\ EndsWith(Rstrip(Inner), Semicolon)) =>
          /\ emitted' = emitted \o Before \o Inner
          /\ line' = CollapseBlankLine(Inner, SliceFrom(After, 1))]_vars

\* C10: the run on the output of a first run writes that output again.
C10_RerunIsFixedPoint == (pc = "done" /\ run = 2) => out = first_out

(***************************************************************************)
(* find_conditional_end, as C3 describes it: the depth before each index,  *)
(* counted from the end of the digits.  busy: the index is the second      *)
(* character of a "/*" or "*/" already counted.                            *)
(***************************************************************************)
\* The count after index j, given the count d before it.
DepthStep(c, j, d) ==
    IF d.busy THEN [depth |-> d.depth, busy |-> FALSE]
    ELSE IF Slice(c, j, j + 2) = SlashStar THEN [depth |-> d.depth + 1, busy |-> TRUE]
    ELSE IF Slice(c, j, j + 2) = StarSlash /\ d.depth > 0
         THEN [depth |-> d.depth - 1, busy |-> TRUE]
    ELSE d

RECURSIVE DepthBefore(_, _, _)
DepthBefore(c, digits_end, i) ==
    IF i <= digits_end THEN [depth |-> 0, busy |-> FALSE]
    ELSE DepthStep(c, i - 1, DepthBefore(c, digits_end, i - 1))

\* The indices of a "*/" met at depth 0.
ClosesAt(c, digits_end) ==
    {i \in digits_end..(Len(c) - 2) :
        /\ Slice(c, i, i + 2) = StarSlash
        /\ DepthBefore(c, digits_end, i) = [depth |-> 0, busy |-> FALSE]}

FirstClose(c, digits_end) ==
    IF ClosesAt(c, digits_end) = {} THEN None ELSE MinOf(ClosesAt(c, digits_end))

\* C3: for a text that starts with "/*!" and digits, find_conditional_end
\* returns the first "*/" at depth 0, and no end position exactly when there is
\* none; digits_end is the index right after the digits.
C3_FirstCloseAtDepthZero ==
    (pc = "found" /\ DigitsEnd(comment, 3) > 3) =>
        /\ found.digits_end = DigitsEnd(comment, 3)
        /\ found.end_pos = FirstClose(comment, DigitsEnd(comment, 3))

\* C3, reached: the end position returned lies behind a nested "/* ... */".
C3_Witness ==
    /\ pc = "found"
    /\ found.end_pos # None
    /\ Find(comment, SlashStar, 3) # None
    /\ Find(comment, SlashStar, 3) < Find(comment, StarSlash, found.digits_end)
    /\ Find(comment, StarSlash, found.digits_end) < found.end_pos

(***************************************************************************)
(* Properties of the output as a whole.                                    *)
(***************************************************************************)
\* A complete versioned comment starts at index i of the text: "/*!", digits,
\* and a "*/" that closes it.
GuardAt(text, i) ==
    /\ StartsWithAt(text, Marker, i)
    /\ FindConditionalEnd(SliceFrom(text, i)).end_pos # None

\* The version of the versioned comment that starts at index i.
GuardVersion(text, i) == VersionOf(SliceFrom(text, i), DigitsEnd(text, i + 3) - i)

\* The indices where a complete versioned comment below the threshold starts.
LowGuards(text, version_threshold) ==
    {i \in 0..(Len(text) - 1) :
        GuardAt(text, i) /\ GuardVersion(text, i) < version_threshold}

\* C11: when process_dump_stream has returned, the output holds no complete
\* versioned comment whose version is below the threshold, also where the
\* comment was nested in another versioned comment of the input.
C11_NoGuardBelowThreshold ==
    (pc = "done") => LowGuards(out, cfg.version_threshold) = {}

(***************************************************************************)
(* Reads.  While a comment is collected, Whole is the comment together     *)
(* with everything not read yet: the text one read of the rest of the      *)
(* file would have given.                                                  *)
(***************************************************************************)
Whole == comment \o fin

WholeEnd == FindConditionalEnd(Whole)

\* What the steps after the collecting loop pass to write_out when they are
\* given the text t as the comment.
ChunksFor(t) ==
    Join(CommentOutput(t, FindConditionalEnd(t).end_pos,
                       FindConditionalEnd(t).digits_end, cfg.version_threshold).chunks)

OptionPresent(stmt, option) == Find(stmt, option, Len(CreateHead)) # None

\* The character set a collation belongs to: its name up to the first "_".
CharsetName(collation) == Slice(collation, 0, Find(collation, <<"_">>, 0))

\* The options of the metadata row that the closing line lacks, in the order
\* ENGINE, ROW_FORMAT, DEFAULT CHARSET, COLLATE.
MissingOptions(stmt, info) ==
    (IF OptionPresent(stmt, <<"E","N","G","I","N","E","=">>) THEN <<>> ELSE <<" ","E","N","G","I","N","E","=">> \o info.engine)
    \o (IF OptionPresent(stmt, <<"R","O","W","_","F","O","R","M","A","T","=">>) \/ info.row_format = NoText
        THEN <<>> ELSE <<" ","R","O","W","_","F","O","R","M","A","T","=">> \o info.row_format)
    \o (IF OptionPresent(stmt, <<"D","E","F","A","U","L","T"," ","C","H","A","R","S","E","T","=">>)
        THEN <<>> ELSE <<" ","D","E","F","A","U","L","T"," ","C","H","A","R","S","E","T","=">> \o CharsetName(info.table_collation))
    \o (IF OptionPresent(stmt, <<"C","O","L","L","A","T","E","=">>) THEN <<>> ELSE <<" ","C","O","L","L","A","T","E","=">> \o info.table_collation)

\* The statement with the text put in at index p, nothing else changed.
InsertedAt(stmt, text, p) == Slice(stmt, 0, p) \o text \o SliceFrom(stmt, p)

\* The end of the closing line, before its line ending.
CoreEnd(stmt) == IF EndsWith(stmt, Newline) THEN Len(stmt) - 1 ELSE Len(stmt)

\* Where the program inserts: before the last ';' of the closing line when the
\* line ends with ';' (blanks aside), else at the end of the closing line.
InsertPos(stmt) ==
    IF EndsWith(Rstrip(Slice(stmt, 0, CoreEnd(stmt))), Semicolon)
    THEN Rfind(Slice(stmt, 0, CoreEnd(stmt)), Semicolon)
    ELSE CoreEnd(stmt)

\* The metadata row of the table t.
InfoOfT == cfg.table_meta[<<"d","b",".","t">>]

\* enhance_create_table has returned from a call with one statement and a
\* metadata row that has engine and collation.
Augmented == pc = "enhanced" /\ line \in Statements /\ cfg \in CompleteCfgs

\* C13, as the program does it: the augmented statement is the original with
\* the options the closing line lacks put in at one place, every original
\* character kept in its order; the place is right before the last ';' when
\* the closing line ends with ';' (blanks aside), otherwise the end of the
\* closing line, before its line ending.
C13_OnlyMissingOptionsInserted ==
    Augmented => out = InsertedAt(line, MissingOptions(line, InfoOfT), InsertPos(line))

\* C13, reached: ") ENGINE=InnoDB;" with a row that has no row_format became
\* ") ENGINE=InnoDB DEFAULT CHARSET=utf8mb4 COLLATE=utf8mb4_unicode_ci;".
C13_Witness ==
    /\ Augmented
    /\ line = PlainStatement
    /\ cfg = NoRowFormatCfg
    /\ out = CreateHead
               \o <<")"," ","E","N","G","I","N","E","=","I","n","n","o","D","B"," ","D","E","F","A","U","L","T"," ","C","H","A","R","S","E","T","=","u","t","f","8","m","b","4"," ","C","O","L","L","A","T","E","=","u","t","f","8","m","b","4","_","u","n","i","c","o","d","e","_","c","i",";","\n">>

\* C13, as stated: the missing options are put in before the closing ';': where
\* the closing line has a ';', the inserted text stands right before a ';'.
C13_InsertedBeforeSemicolon ==
    Augmented =>
        \E p \in 0..Len(line) :
            /\ out = InsertedAt(line, MissingOptions(line, InfoOfT), p)
            /\ OptionPresent(line, Semicolon) => (p < Len(line) /\ At(line, p) = ";")

\* C14: enhance_create_table, called with the same metadata on a text it
\* returned, returns that text unchanged.
C14_AugmentationIdempotent ==
    (pc = "again" /\ cfg \in CompleteCfgs) => out = first_out

\* C14, reached: the first call added options to a statement, the second
\* call returned what the first had returned.
C14_Witness ==
    /\ pc = "again"
    /\ cfg \in CompleteCfgs
    /\ line \in Statements
    /\ first_out # line
    /\ out = first_out

\* An option of the text has no value: its '=' is the last character or is
\* followed by a blank, a ';' or a line end.
EmptyOptionValue(text) ==
    \E i \in 0..(Len(text) - 1) :
        /\ At(text, i) = "="
        /\ i + 1 = Len(text) \/ At(text, i + 1) \in {" ", ";", "\n"}

\* C15: with no metadata row for the table, or a row without engine or
\* without collation, enhance_create_table returns the text unchanged and
\* holds nothing back; and whatever the row is, no option is written without
\* a value.
C15_IncompleteMetadataUnchanged ==
    (pc = "enhanced") =>
        /\ (cfg \in IncompleteCfgs) => (out = line /\ create_state.buffer = NoText)
        /\ ~EmptyOptionValue(out)

\* C15, reached: a statement that lacks DEFAULT CHARSET and COLLATE was
\* returned unchanged because the row of its table has no collation.
C15_Witness ==
    /\ pc = "enhanced"
    /\ cfg = NoCollationCfg
    /\ line = PlainStatement
    /\ out = line

\* The statement as it is emitted when it is augmented.
AugmentedForm(stmt) == InsertedAt(stmt, MissingOptions(stmt, InfoOfT), InsertPos(stmt))

\* C16: a CREATE TABLE `t` that follows the line DROP VIEW IF EXISTS `t`; is
\* emitted as it is, and a second CREATE TABLE `t` behind it, with no DROP VIEW
\* in between, is augmented.
C16_PlaceholderExemptOnce ==
    (pc = "enhanced" /\ cfg \in CompleteCfgs) =>
        \A s \in Statements :
            /\ (line = DropViewLine \o s) => out = line
            /\ (EndsWith(s, Newline) /\ line = DropViewLine \o s \o PlainStatement) =>
                   out = DropViewLine \o s \o AugmentedForm(PlainStatement)

\* C16, reached: of two statements for t behind one DROP VIEW line the first
\* was emitted as it was and the second with the options of the metadata.
C16_Witness ==
    /\ pc = "enhanced"
    /\ cfg = MetaCfg
    /\ line = DropViewLine \o PlainStatement \o PlainStatement
    /\ out = DropViewLine \o PlainStatement \o CreateHead
               \o <<")"," ","E","N","G","I","N","E","=","I","n","n","o","D","B"," ","R","O","W","_","F","O","R","M","A","T","=","D","Y","N","A","M","I","C"," ","D","E","F","A","U","L","T"," ","C","H","A","R","S","E","T","=","u","t","f","8","m","b","4">>
               \o <<" ","C","O","L","L","A","T","E","=","u","t","f","8","m","b","4","_","u","n","i","c","o","d","e","_","c","i",";","\n">>

(***************************************************************************)
(* The time-zone rewrite.                                                  *)
(***************************************************************************)
\* How the statement may begin, be spaced and name UTC.
TimeZoneHeads == {<<"S","E","T"," ","t","i","m","e","_","z","o","n","e">>, <<"s","e","t"," "," ","T","I","M","E","_","Z","O","N","E">>}

TimeZoneEquals == {Equals, <<" ","="," ">>}

UtcLiterals == {<<"'","U","T","C","'">>, <<"\"","u","t","c","\"">>}

\* C17: a text that is SET time_zone = 'UTC' in either spelling, with or without
\* blanks around '=', in single or double quotes, at the start of a line, and
\* whatever follows on the line, is returned with '+00:00' in place of the
\* literal and nothing else changed; replace_utc_time_zone called on a text it
\* returned returns it unchanged.
C17_UtcStatementRewritten ==
    /\ (pc = "rewritten") =>
           \A l \in {NoText, Newline}, h \in TimeZoneHeads, e \in TimeZoneEquals,
              q \in UtcLiterals, r \in TimeZoneTokens \cup {NoText} :
               (line = l \o h \o e \o q \o r) => out = l \o h \o e \o <<"'","+","0","0",":","0","0","'">> \o r
    /\ (pc = "again") => out = first_out

\* C17, reached: the statement in lower case, with blanks and double quotes,
\* was rewritten up to its ';', and the second call changed nothing.
C17_Witness ==
    /\ pc = "again"
    /\ line = <<"s","e","t"," "," ","T","I","M","E","_","Z","O","N","E"," ","="," ","\"","u","t","c","\"",";">>
    /\ first_out = <<"s","e","t"," "," ","T","I","M","E","_","Z","O","N","E"," ","="," ","'","+","0","0",":","0","0","'",";">>
    /\ out = first_out

\* The statement as the inputs of Spec hold it.
UtcStatement == <<"S","E","T"," ","t","i","m","e","_","z","o","n","e","=","'","U","T","C","'">>

\* The indices of the text where the statement stands.
UtcStatementStarts(text) ==
    {i \in 0..(Len(text) - 1) : StartsWithAt(text, UtcStatement, i)}

\* Index i is later in its line: other text than blanks stands before it on
\* the same line.
LaterInLine(text, i) ==
    \E j \in 0..(i - 1) :
        /\ ~IsSpace(At(text, j))
        /\ \A k \in j..(i - 1) : At(text, k) # "\n"

\* C18: when the statement stands in the input only later in a line, never at
\* the start of one, nothing is rewritten: the output holds no '+00:00'.
C18_LaterInLineNotRewritten ==
    (pc = "done" /\ \A i \in UtcStatementStarts(input) : LaterInLine(input, i)) =>
        Find(out, <<"'","+","0","0",":","0","0","'">>, 0) = None

(***************************************************************************)
(* no_drop.                                                                *)
(***************************************************************************)
\* A DROP statement: plain, in a block below the threshold and in one above
\* it, with its ';' behind the block or inside it.
DropForms ==
    {<<"D","R","O","P"," ","T","A","B","L","E"," ","t",";">>,
     <<"/","*","!","5","0","0","0","1"," ","D","R","O","P"," ","T","A","B","L","E"," ","t"," ","*","/",";">>, <<"/","*","!","5","0","0","0","1"," ","D","R","O","P"," ","T","A","B","L","E"," ","t",";"," ","*","/">>,
     <<"/","*","!","8","0","0","0","1"," ","D","R","O","P"," ","T","A","B","L","E"," ","t"," ","*","/",";">>, <<"/","*","!","8","0","0","0","1"," ","D","R","O","P"," ","T","A","B","L","E"," ","t",";"," ","*","/">>}

\* The version of the block a DROP form is in is below the threshold.
BelowThreshold(d) == StartsWith(d, <<"/","*","!","5","0","0","0","1">>)

\* C19: for an input that is one DROP statement, alone or with its line end:
\* with no_drop nothing of the statement is written (at most the line end);
\* without no_drop the plain statement and the statement in a block that is
\* kept are written unchanged.
C19_DropStatementsElided ==
    (pc = "done") =>
        \A d \in DropForms, nl \in {NoText, Newline} :
            (input = d \o nl) =>
                IF cfg.no_drop
                THEN out \in {Preamble(cfg), Preamble(cfg) \o nl}
                ELSE ~BelowThreshold(d) => out = Preamble(cfg) \o input

\* C20: with no_drop, the line with the DROP statement in a versioned comment
\* gives the output that the line with the plain DROP statement gives: nothing.
C20_GuardedDropLikePlain ==
    (pc = "done" /\ cfg.no_drop) =>
        /\ (input = <<"D","R","O","P"," ","T","A","B","L","E"," ","t",";","\n">>) => out = Preamble(cfg)
        /\ (input = <<"/","*","!","5","0","0","0","1"," ","D","R","O","P"," ","T","A","B","L","E"," ","t",";"," ","*","/","\n">>) => out = Preamble(cfg)

(***************************************************************************)
(* ddl.                                                                    *)
(***************************************************************************)
\* The texts of s that AUTO_INCREMENT_RE matches.
AutoIncrementTexts(s) ==
    {Slice(s, i, AutoIncrementEnd(s, i)) : i \in AutoIncrementStarts(s, 0)}

\* The line starts of s where DUMP_COMPLETED_ON_RE matches.
DumpCompletedLines(s) == {i \in 0..(Len(s) - 1) : DumpCompletedEnd(s, i) # None}

\* The input has no '/*!'.
MarkerFree(s) == Find(s, Marker, 0) = None

\* C21: with ddl every AUTO_INCREMENT=<number> of the output reads
\* AUTO_INCREMENT=0 and no line of the output is a "-- Dump completed on ..."
\* line; without ddl an input without '/*!' is written as it is.
C21_VolatileDetailsNormalised ==
    (pc = "done") =>
        IF cfg.ddl
        THEN /\ AutoIncrementTexts(out) \subseteq {<<"A","U","T","O","_","I","N","C","R","E","M","E","N","T","=","0">>}
             /\ DumpCompletedLines(out) = {}
        ELSE MarkerFree(input) => out = Preamble(cfg) \o input

(***************************************************************************)
(* Progress.                                                               *)
(***************************************************************************)
\* C22: the percentages written to stderr during a run, the final report
\* included, never decrease.
C22_PercentagesNonDecreasing ==
    \A i \in 1..(Len(progress.stderr) - 1) : progress.stderr[i] <= progress.stderr[i + 1]

References(text) == ScanChunk(text)

\* The collations that the dump, as it was when main() was called, references
\* and that the target has not, under no alias.
Unsupported(p) == References(input) \ SupportedExpanded(p.supported)

\* The mapping gives c a replacement that is not empty, that the target has,
\* and that is of the charset of c unless --allow-charset-change is given.
ValidReplacement(p, c) ==
    /\ c \in DOMAIN p.mapping
    /\ Strip(p.mapping[c]) # NoText
    /\ IsSupported(Strip(p.mapping[c]), p.supported)
    /\ \/ p.args.allow_charset_change
       \/ CanonicalCharsetFromCollation(c)
              = CanonicalCharsetFromCollation(Strip(p.mapping[c]))

\* main() has returned, and the paths of the output and of the report are
\* not that of the dump.
ExitApart(p) == pc = "exit" /\ p.args.output = OutPath /\ p.args.report # DumpPath

OutputWritten(p) == p.files[OutPath] # NoFile

\* C24: the output dump is written only when every unsupported collation of
\* the dump has a valid replacement and --dry-run is not given; when one has
\* none, main() returns 2 and the output dump is not written.
C24_OutputOnlyWhenAllReplaced ==
    ExitApart(preimport) =>
        /\ OutputWritten(preimport) =>
               /\ \A c \in Unsupported(preimport) : ValidReplacement(preimport, c)
               /\ ~preimport.args.dry_run
        /\ (\E c \in Unsupported(preimport) : ~ValidReplacement(preimport, c)) =>
               /\ preimport.status = 2
               /\ ~OutputWritten(preimport)

\* The entries of the mapping file new are those of the file old, unchanged,
\* and added keys with the empty string as value.
KeepsEntries(old, new) ==
    /\ old.exists => new.exists /\ DOMAIN old.data \subseteq DOMAIN new.data
    /\ new.exists =>
           \A k \in DOMAIN new.data :
               IF old.exists /\ k \in DOMAIN old.data
               THEN new.data[k] = old.data[k]
               ELSE new.data[k] = NoText

\* The unsupported collations of the dump are keys of the mapping file.
HasKeys(p) ==
    \A c \in Unsupported(p) : p.map_file.exists /\ c \in DOMAIN p.map_file.data

\* C25: when main() returns, every unsupported collation of the dump is a key
\* of the mapping file, the keys that were added have the value "", and the
\* entries that the file had are unchanged.
C25_MappingHasUnsupportedKeys ==
    [][pc' = "exit" =>
           /\ HasKeys(preimport')
           /\ KeepsEntries(preimport.map_file, preimport'.map_file)]_vars

\* C26: the dump is, at every point of main(), what it was when main() was
\* called.
C26_DumpNeverModified == (preimport # NoPreImport) => preimport.files[DumpPath] = input

(***************************************************************************)
(* build_replacements.                                                     *)
(***************************************************************************)
\* Two collations are of one charset family: the prefixes before the first
\* "_" are the same, or they are utf8 and utf8mb3.
SameFamily(a, b) ==
    \/ BaseOf(a) = BaseOf(b)
    \/ {BaseOf(a), BaseOf(b)} \subseteq {<<"u","t","f","8">>, <<"u","t","f","8","m","b","3">>}

\* The referenced collations that the given set has under no alias and that
\* the mapping gives a value that is not blank.
MappedUnsupported(p) ==
    {c \in p.referenced :
        /\ CollationAliases(c) \cap p.supported = {}
        /\ c \in DOMAIN p.mapping
        /\ Strip(p.mapping[c]) # NoText}

\* C27: without allow_charset_change every entry of replacements stays in
\* the charset family of its key, and a mapping into another family is in
\* invalid_targets and not in replacements.
C27_NoCharsetChange ==
    (pc = "returned" /\ ~preimport.allow_charset_change) =>
        /\ \A c \in DOMAIN preimport.built.replacements :
               SameFamily(c, preimport.built.replacements[c])
        /\ \A c \in MappedUnsupported(preimport) :
               ~SameFamily(c, Strip(preimport.mapping[c])) =>
                   /\ c \in DOMAIN preimport.built.invalid_targets
                   /\ c \notin DOMAIN preimport.built.replacements

\* A mapping into another family was blocked and another one was accepted.
C27_Witness ==
    /\ pc = "returned"
    /\ ~preimport.allow_charset_change
    /\ \E c \in MappedUnsupported(preimport) :
           /\ ~SameFamily(c, Strip(preimport.mapping[c]))
           /\ IsSupported(Strip(preimport.mapping[c]), preimport.supported)
           /\ c \in DOMAIN preimport.built.invalid_targets
    /\ DOMAIN preimport.built.replacements # {}

\* C28: every replacement target is a member of the supported set, the
\* mapped name itself if the set has it and its alias otherwise; a mapping
\* whose target the set has under no alias is in invalid_targets and not in
\* replacements.
C28_TargetsSupported ==
    (pc = "returned") =>
        /\ \A c \in DOMAIN preimport.built.replacements :
               /\ preimport.built.replacements[c] \in preimport.supported
               /\ preimport.built.replacements[c]
                      \in CollationAliases(Strip(preimport.mapping[c]))
               /\ Strip(preimport.mapping[c]) \in preimport.supported =>
                      preimport.built.replacements[c] = Strip(preimport.mapping[c])
        /\ \A c \in MappedUnsupported(preimport) :
               CollationAliases(Strip(preimport.mapping[c])) \cap preimport.supported = {} =>
                   /\ c \in DOMAIN preimport.built.invalid_targets
                   /\ c \notin DOMAIN preimport.built.replacements

\* A replacement is the alias of the mapped name, which the set has not, and
\* another mapping has a target that the set has under no alias.
C28_Witness ==
    /\ pc = "returned"
    /\ \E c \in DOMAIN preimport.built.replacements :
           /\ Strip(preimport.mapping[c]) \notin preimport.supported
           /\ preimport.built.replacements[c] \in preimport.supported
    /\ \E c \in MappedUnsupported(preimport) :
           /\ CollationAliases(Strip(preimport.mapping[c])) \cap preimport.supported = {}
           /\ c \in DOMAIN preimport.built.invalid_targets

(***************************************************************************)
(* The standalone script: options of the closing line.                     *)
(***************************************************************************)
OptionList == <<OptAutoIncrement, OptRowFormat, OptComment>>

\* The options of OptionList that text carries are in other, in their order.
KeepsOptions(text, other) ==
    /\ \A i \in 1..Len(OptionList) :
          Find(text, OptionList[i], 0) # None => Find(other, OptionList[i], 0) # None
    /\ \A i, j \in 1..Len(OptionList) :
          (/\ Find(text, OptionList[i], 0) # None
           /\ Find(text, OptionList[j], 0) # None
           /\ Find(text, OptionList[i], 0) < Find(text, OptionList[j], 0))
          => Find(other, OptionList[i], 0) < Find(other, OptionList[j], 0)

\* C29: in the standalone script too, the table options that the closing line
\* of a CREATE TABLE statement already carries (AUTO_INCREMENT=, ROW_FORMAT=,
\* COMMENT=) are still present, in their order, in the statement written.
C29_StandaloneKeepsOptions ==
    pc = "written" => KeepsOptions(input, out)

(***************************************************************************)
(* What process_dump_stream holds of the input.                            *)
(***************************************************************************)
\* The text that fin yields in the run.
InputText == TranslateNewlines(Decode(input))

\* Where in s a versioned comment starts: "/*!" and a digit.
CommentStarts(s) ==
    {i \in 0..(Len(s) - 4) : Slice(s, i, i + 3) = Marker /\ IsDigit(At(s, i + 3))}

\* Size of the comment block of s that starts at index 0 and whose "*/" is at
\* end_pos, with the rest of the line it ends in; without "*/" the block is
\* all of s.
BlockSize(s, end_pos) == IF end_pos = None THEN Len(s) ELSE NextLineStart(s, end_pos + 2)

LargestComment(s) ==
    MaxOf({0} \cup {BlockSize(SliceFrom(s, i), FindConditionalEnd(SliceFrom(s, i)).end_pos) :
                        i \in CommentStarts(s)})

\* The sizes of the statements of the unread text f, n characters of the
\* current statement being read already: a statement ends with the line that
\* ends with ';', or with the text.
RECURSIVE StatementSizes(_, _)
StatementSizes(f, n) ==
    IF Len(f) = 0 THEN {n}
    ELSE IF EndsWith(Rstrip(FirstLine(f)), Semicolon)
    THEN {n + Len(FirstLine(f))} \cup StatementSizes(SliceFrom(f, Len(FirstLine(f))), 0)
    ELSE StatementSizes(SliceFrom(f, Len(FirstLine(f))), n + Len(FirstLine(f)))

LargestStatement(s) == MaxOf(StatementSizes(s, 0))

\* The input text held: the comment being accumulated and the CREATE TABLE
\* accumulator.
Held == (IF pc = "collect" THEN Len(comment) ELSE 0) + Len(create_state.buffer)

\* C30: at every point of a run the comment being accumulated and the CREATE
\* TABLE accumulator together hold no more text than the largest comment block
\* plus the largest statement of the input.
C30_HeldTextBounded == Held <= LargestComment(InputText) + LargestStatement(InputText)

(***************************************************************************)
(* The nesting depth of the comment scanner.                               *)
(***************************************************************************)
\* The scanner is at a "*/" inside a nested block comment.
AtNestedEnd ==
    /\ pc = "loop"
    /\ found.k < Len(comment) - 1
    /\ Two = StarSlash
    /\ found.depth > 0

\* C31: the depth counter of find_conditional_end is never negative; the block
\* is reported closed only at depth 0; a "*/" seen at depth > 0 decrements the
\* depth and does not close the block.
C31_DepthInvariant ==
    /\ [](found.depth >= 0 /\ (found.end_pos # None => found.depth = 0))
    /\ [][AtNestedEnd => (/\ found'.depth = found.depth - 1
                          /\ found'.end_pos = None
                          /\ pc' = "loop")]_vars

\* C31, reached: a nested block comment was closed, and the block after it.
C31_Witness ==
    /\ pc = "returned"
    /\ found.end_pos # None
    /\ Find(comment, SlashStar, found.digits_end) # None
    /\ Find(comment, StarSlash, found.digits_end) # None
    /\ Find(comment, SlashStar, found.digits_end) < Find(comment, StarSlash, found.digits_end)
    /\ Find(comment, StarSlash, found.digits_end) < found.end_pos

(***************************************************************************)
(* The CREATE TABLE accumulator between the calls.                         *)
(***************************************************************************)
\* The accumulator holds nothing.
AccumulatorEmpty(state) ==
    /\ ~state.in_create
    /\ state.buffer = NoText
    /\ state.current_table = NoText

\* The call about to be made gets one line, a line that matches ") ENGINE=",
\* while a statement is being accumulated.
EngineLineWhileInCreate ==
    /\ pc = "pieces"
    /\ create_state.in_create
    /\ line' = SliceFrom(line, Len(FirstLine(line)))
    /\ IsEngineLine(FirstLine(line))

RECURSIVE LastUse(_, _)
LastUse(lines, name) ==
    IF Len(lines) = 0 THEN name
    ELSE LastUse(Tail(lines),
                 IF UseDbName(Head(lines)) # NoText THEN UseDbName(Head(lines)) ELSE name)

\* The lines of the input before its CREATE TABLE statement.
LinesBefore == SplitLines(Slice(input, 0, Find(input, CreateHead, 0)))

\* The metadata keys that end with ".t".
KeysOfT == {k \in DOMAIN cfg.table_meta : EndsWith(k, <<".","t">>)}

\* The key the statement is to be looked up with when the schema is known.
KeyOfSchema(schema) == schema \o <<".","t">>

\* The statement as it is to come out when it is looked up with the key.
OutWith(key) ==
    Slice(input, 0, Find(input, CreateHead, 0))
        \o (IF key \in DOMAIN cfg.table_meta
            THEN Augment(PlainStatement, cfg.table_meta[key]) ELSE PlainStatement)

\* C33: the statement is looked up with the schema of the most recent USE
\* statement before it, otherwise with default_schema; with neither, with the
\* metadata key that matches the table name if exactly one does, and else it
\* is not looked up at all.
C33_LookupSchema ==
    (pc = "fed") =>
        out = IF LastUse(LinesBefore, NoText) # NoText
              THEN OutWith(KeyOfSchema(LastUse(LinesBefore, NoText)))
              ELSE IF cfg.default_schema # NoText
              THEN OutWith(KeyOfSchema(cfg.default_schema))
              ELSE IF Cardinality(KeysOfT) = 1
              THEN OutWith(CHOOSE k \in KeysOfT : TRUE)
              ELSE input

\* C33, reached: the statement was augmented with the row of the schema named
\* by USE, not with that of default_schema.
C33_Witness ==
    /\ pc = "fed"
    /\ cfg.default_schema = <<"d","b">>
    /\ LastUse(LinesBefore, NoText) = <<"o","t","h","e","r">>
    /\ DOMAIN cfg.table_meta = {<<"d","b",".","t">>, <<"o","t","h","e","r",".","t">>}
    /\ Find(out, <<"C","O","L","L","A","T","E","=","l","a","t","i","n","1","_","b","i","n">>, 0) # None

(***************************************************************************)
(* The blank line after a block whose ';' was moved.                       *)
(***************************************************************************)
TwoLineBreaks == {<<"\n","\n">>, <<"\r","\n","\r","\n">>}

\* The text that follows the block in the input once its ';' is consumed: the
\* rest of the line and what is not read yet.
Following == SliceFrom(After, 1) \o fin

\* text without its first line break.
WithoutLineBreak(text) ==
    IF StartsWith(text, Newline) THEN SliceFrom(text, 1) ELSE SliceFrom(text, 2)

\* C34: when a block below the threshold is closed and the ';' after it is
\* consumed, and the inner content ends with a newline and the text that
\* follows begins with two line breaks, one of the line breaks is removed;
\* in every other case the text that follows is left as it is.
C34_BlankLineCollapsed ==
    [][(Unwrapping /\ StartsWith(After, Semicolon)) =>
          line' \o fin' =
              IF EndsWith(Inner, Newline) /\ (\E b \in TwoLineBreaks : StartsWith(Following, b))
              THEN WithoutLineBreak(Following)
              ELSE Following]_vars

(***************************************************************************)
(* Termination of process_dump_stream.                                     *)
(***************************************************************************)
\* The text the loops still have to go through: what is left of the line, or
\* the comment being collected.
Remainder ==
    IF pc = "scan" THEN Len(line) - pos
    ELSE IF pc = "collect" THEN Len(comment)
    ELSE 0

\* A number that every step makes smaller: text not yet read counts more than
\* text read, and a scan that is still to find no marker counts one.
Variant ==
    IF pc = "done" THEN -1
    ELSE 8 * Len(fin) + 6 * Remainder + (IF pc = "scan" THEN 1 ELSE 0)

\* C35: every run ends, and every step of the loops ends the line, moves the
\* scan past a marker, reads a further line or goes on in the shorter text
\* after a closed comment: the variant decreases with each step.
C35_Terminates ==
    /\ <>(pc = "done")
    /\ [][Variant' < Variant]_vars

\* C35, reached: the run of an input with a marker without digits, then a
\* comment of two lines and text after it, has ended.
C35_Witness ==
    /\ pc = "done"
    /\ input = Marker \o <<"/","*","!","5","\n">> \o <<"*","/","a",";","\n">>

(***************************************************************************)
(* C36: the order of the output.                                           *)
(***************************************************************************)
\* The lines of the input, in order.
InputLines == SplitLines(input)

\* The line occurs once in the input and is in the output as it was read.
WrittenOnce(l) ==
    /\ Cardinality({i \in DOMAIN InputLines : InputLines[i] = l}) = 1
    /\ Find(out, l, 0) # None

\* C36: two lines of the input that are both written to the output are in the
\* output in the order they have in the input, also when one of them was held
\* back by enhance_create_table as part of a CREATE TABLE statement.
C36_OrderPreserved ==
    \A i, j \in DOMAIN InputLines :
        (i < j /\ WrittenOnce(InputLines[i]) /\ WrittenOnce(InputLines[j]))
            => Find(out, InputLines[i], 0) < Find(out, InputLines[j], 0)

(***************************************************************************)
(* C37: what no_drop removes.                                              *)
(***************************************************************************)
\* The statements of a text: what ends at each ";" and what is left behind the
\* last one.
RECURSIVE StatementsOf(_)
StatementsOf(s) ==
    IF Find(s, Semicolon, 0) = None THEN {s}
    ELSE {Slice(s, 0, Find(s, Semicolon, 0) + 1)}
             \cup StatementsOf(SliceFrom(s, Find(s, Semicolon, 0) + 1))

\* No statement of the text has DROP as its first token, bare or in a versioned
\* comment.
NoDropStatement(s) ==
    \A st \in StatementsOf(s) :
        /\ ~StartsWith(Lstrip(st), KwDrop)
        /\ ~StartsWith(Lstrip(st), Marker)

\* C37: with no_drop, when no statement of the input has DROP as its first
\* token, nothing is removed: the output is the header and then every chunk
\* that was given to write_out, whole.
C37_OnlyDropsRemoved ==
    (cfg.no_drop /\ NoDropStatement(input)) => out = Preamble(cfg) \o emitted

(***************************************************************************)
(* C38: the classes of build_replacements.                                 *)
(***************************************************************************)
\* The classes a referenced collation is in, by number.
ClassesOf(c) ==
    {k \in 1..4 :
        \/ k = 1 /\ IsSupported(c, preimport.supported)
        \/ k = 2 /\ c \in DOMAIN preimport.built.replacements
        \/ k = 3 /\ c \in preimport.built.missing
        \/ k = 4 /\ c \in DOMAIN preimport.built.invalid_targets}

\* The keys of the three results.
ResultKeys ==
    DOMAIN preimport.built.replacements \cup preimport.built.missing
        \cup DOMAIN preimport.built.invalid_targets

\* C38: when build_replacements has returned, every referenced collation is in
\* exactly one of the four classes: supported by the target (by its name or its
\* utf8/utf8mb3 alias), a key of replacements, in missing, a key of
\* invalid_targets; the three key sets are pairwise disjoint and no key is a
\* supported collation.
C38_FourClasses ==
    (pc = "returned") =>
        /\ \A c \in preimport.referenced : Cardinality(ClassesOf(c)) = 1
        /\ DOMAIN preimport.built.replacements \cap preimport.built.missing = {}
        /\ DOMAIN preimport.built.replacements
               \cap DOMAIN preimport.built.invalid_targets = {}
        /\ preimport.built.missing \cap DOMAIN preimport.built.invalid_targets = {}
        /\ \A c \in ResultKeys : ~IsSupported(c, preimport.supported)

\* A collation supported through its alias, one replaced and one invalid.
C38_Witness ==
    /\ pc = "returned"
    /\ <<"u","t","f","8","_","b","i","n">> \in preimport.referenced
    /\ <<"u","t","f","8","_","b","i","n">> \notin preimport.supported
    /\ ClassesOf(<<"u","t","f","8","_","b","i","n">>) = {1}
    /\ ClassesOf(NameMysql8) = {2}
    /\ ClassesOf(<<"l","a","t","i","n","1","_","b","i","n">>) = {4}

(***************************************************************************)
(* C39: the chunk size of pre-import.py.                                   *)
(***************************************************************************)
\* The collations referenced in a text that is read as one chunk.
ReferencedIn(text) == ScanDumpForCollations(text, Len(text) + 1)

\* C39: scan_dump_for_collations returns, for every chunk size, the names it
\* returns for the default chunk size, which takes the dump as one chunk; and
\* what apply_replacements_stream has written has no reference to a collation
\* that has a replacement.
C39_ChunkSizeIndependent ==
    /\ (pc \in {"apply", "applied"}) =>
           preimport.referenced = ScanDumpForCollations(input, DefaultChunkSize)
    /\ (pc = "applied") =>
           ReferencedIn(out) \cap DOMAIN preimport.replacements = {}

=============================================================================
